---- MODULE Spec2Model ----
(***************************************************************************)
(* A model of hashicorp/go-slug: the slug unpacker (slug.go) and the       *)
(* source bundle builder (sourcebundle).                                   *)
(*                                                                         *)
(* Strings are sequences of one-character strings, so that the string      *)
(* operations of the code (strings.HasPrefix, strings.Split,               *)
(* filepath.Clean, filepath.Join) are computed as the code computes them.  *)
(***************************************************************************)
EXTENDS Naturals, Integers, Sequences, FiniteSets, TLC

VARIABLES
    \* ---- slug.Unpack ----
    fs,                  \* the file system: real path (sequence of names) -> node
    archive,             \* the tar stream: a sequence of headers
    pos,                 \* index of the next header untar.Next() returns
    unpackErr,           \* "running", "ok", or the error Unpack returned
    allowSymlinkTargets, \* Packer.allowSymlinkTargets
    entryLog,            \* history: what each processed entry did
    \* ---- sourcebundle.Builder ----
    targetDir,               \* Builder.targetDir; empty once closed or poisoned
    pendingRemote,           \* Builder.pendingRemote
    pendingRegistry,         \* Builder.pendingRegistry
    analyzed,                \* Builder.analyzed
    remotePackageDirs,       \* Builder.remotePackageDirs
    remotePackageMeta,       \* Builder.remotePackageMeta
    resolvedRegistry,        \* Builder.resolvedRegistry
    registryPackageVersions, \* Builder.registryPackageVersions
    disk,                    \* the directories of the bundle directory: name -> tree
    manifest,                \* the manifest file, "none" until Close writes it
    bundle,                  \* the Bundle Close returned, "none" before
    pc,                      \* where the caller is: "idle", or in resolvePending
    diags,                   \* the diagnostics of the running resolvePending
    calls,                   \* history: tracer events, collaborator calls, and
                             \* the artifacts whose package was installed
    lastResult,              \* history: the last call that returned, and how
    addCount,                \* history: the number of Add* calls made
    errorsReturned,          \* history: an Add* call returned error diagnostics
    registryAdded,           \* history: registry sources resolved, with version
    \* ---- slug.Pack, and the helper functions, each with its arguments,
    \*      its local variables and its result ----
    packer,                  \* Packer.Pack: options, the walk, meta, the result
    matcher,                 \* matchIgnoreRule: rules, path, loop index, matched
    escaping,                \* escapingfs.TargetWithinRoot: root, target, result
    copier,                  \* copyUtil.CopyWithLimit: src, dst, totalChunks, err
    lookup,                  \* Bundle.SourceForLocalPath: the calls made
    tracing,                 \* one traced operation of the builder: the tracer,
                             \* the contexts, and the calls made with them
    resolver,                \* ResolveRelativeSource and ParseSource: the two
                             \* addresses, the result, and what it parses to
    shared,                  \* one builder with two goroutines in Add* calls
    sink,                    \* a Dependencies object and the finder using it
    reader                   \* readRules: the lines, the loop, the rules

unpackVars == <<fs, archive, pos, unpackErr, allowSymlinkTargets, entryLog>>

builderVars == <<targetDir, pendingRemote, pendingRegistry, analyzed,
                 remotePackageDirs, remotePackageMeta, resolvedRegistry,
                 registryPackageVersions, disk, manifest, bundle, pc, diags,
                 calls, lastResult, addCount, errorsReturned, registryAdded>>

toolVars == <<packer, matcher, escaping, copier, lookup, tracing,
              resolver, shared, sink, reader>>

vars == <<unpackVars, builderVars, toolVars>>

\* A function that is not being called
Unused == [pc |-> "unused"]

NoTools ==
    /\ packer = Unused /\ matcher = Unused /\ escaping = Unused
    /\ copier = Unused /\ lookup = Unused /\ tracing = Unused
    /\ resolver = Unused /\ shared = Unused /\ sink = Unused
    /\ reader = Unused

\* No manifest file
NoManifest ==
    [written |-> FALSE, FormatVersion |-> 0, Packages |-> <<>>,
     RegistryMeta |-> <<>>]

\* No bundle object
NoBundle ==
    [open |-> FALSE, rootDir |-> <<>>, remotePackageDirs |-> <<>>,
     remotePackageMeta |-> <<>>, registryPackageSources |-> <<>>]

\* No call has returned
NoResult == [op |-> "none", result |-> "none"]

\* No builder exists while the unpacker is examined, and no unpacker while
\* the builder is.
NoBuilder ==
    /\ targetDir = <<>> /\ pendingRemote = <<>> /\ pendingRegistry = <<>>
    /\ analyzed = {} /\ remotePackageDirs = <<>> /\ remotePackageMeta = <<>>
    /\ resolvedRegistry = <<>> /\ registryPackageVersions = <<>>
    /\ disk = <<>> /\ manifest = NoManifest /\ bundle = NoBundle /\ pc = "none"
    /\ diags = <<>> /\ calls = <<>> /\ lastResult = NoResult /\ addCount = 0
    /\ errorsReturned = FALSE /\ registryAdded = {}

NoUnpack ==
    /\ fs = <<>> /\ archive = <<>> /\ pos = 0 /\ unpackErr = "none"
    /\ allowSymlinkTargets = <<>> /\ entryLog = <<>>

-----------------------------------------------------------------------------
(* Strings *)

Sep == "/"
Dot == <<".">>
DotDot == <<".", ".">>

\* strings.HasPrefix
HasPrefix(s, prefix) ==
    /\ Len(prefix) <= Len(s)
    /\ SubSeq(s, 1, Len(prefix)) = prefix

\* strings.HasSuffix
HasSuffix(s, suffix) ==
    /\ Len(suffix) <= Len(s)
    /\ SubSeq(s, Len(s) - Len(suffix) + 1, Len(s)) = suffix

\* strings.Split(s, "/"): always at least one element
RECURSIVE SplitFrom(_, _, _)
SplitFrom(s, i, cur) ==
    IF i > Len(s) THEN <<cur>>
    ELSE IF s[i] = Sep THEN <<cur>> \o SplitFrom(s, i + 1, <<>>)
    ELSE SplitFrom(s, i + 1, Append(cur, s[i]))

Split(s) == SplitFrom(s, 1, <<>>)

\* strings.Join(elems, "/")
RECURSIVE JoinSep(_)
JoinSep(elems) ==
    IF Len(elems) = 0 THEN <<>>
    ELSE IF Len(elems) = 1 THEN elems[1]
    ELSE elems[1] \o <<Sep>> \o JoinSep(Tail(elems))

\* filepath.IsAbs
IsAbs(s) == Len(s) > 0 /\ s[1] = Sep

\* The lexical processing of filepath.Clean on the elements of a path: empty
\* and "." elements are dropped, ".." removes the element before it; at the
\* root ".." is dropped, in a relative path a leading ".." is kept.
RECURSIVE CleanElems(_, _, _)
CleanElems(elems, out, rooted) ==
    IF Len(elems) = 0 THEN out
    ELSE LET e == Head(elems)
             rest == Tail(elems)
         IN IF e = <<>> \/ e = Dot THEN CleanElems(rest, out, rooted)
            ELSE IF e = DotDot
                 THEN IF Len(out) > 0 /\ out[Len(out)] # DotDot
                      THEN CleanElems(rest, SubSeq(out, 1, Len(out) - 1), rooted)
                      ELSE IF rooted THEN CleanElems(rest, out, rooted)
                      ELSE CleanElems(rest, Append(out, e), rooted)
            ELSE CleanElems(rest, Append(out, e), rooted)

\* filepath.Clean
Clean(s) ==
    IF Len(s) = 0 THEN Dot
    ELSE LET rooted == IsAbs(s)
             out == CleanElems(Split(s), <<>>, rooted)
         IN IF rooted THEN <<Sep>> \o JoinSep(out)
            ELSE IF Len(out) = 0 THEN Dot ELSE JoinSep(out)

\* filepath.Join of two elements: empty elements are ignored, the result is
\* cleaned, and the join of nothing is the empty string.
Join(a, b) ==
    IF Len(a) = 0 /\ Len(b) = 0 THEN <<>>
    ELSE IF Len(a) = 0 THEN Clean(b)
    ELSE IF Len(b) = 0 THEN Clean(a)
    ELSE Clean(a \o <<Sep>> \o b)

\* index of the last separator of s, 0 when there is none
RECURSIVE LastSep(_, _)
LastSep(s, i) ==
    IF i = 0 THEN 0 ELSE IF s[i] = Sep THEN i ELSE LastSep(s, i - 1)

\* filepath.Dir
Dir(s) == Clean(SubSeq(s, 1, LastSep(s, Len(s))))

\* The names of a clean absolute path, the form the file system is keyed by.
Names(p) == CleanElems(Split(p), <<>>, TRUE)

\* The clean absolute path of a sequence of names.
PathOf(names) == <<Sep>> \o JoinSep(names)

\* filepath.Rel for two absolute paths: ".." for every name of base past the
\* common part, then the rest of target; "." when they are the same.
RECURSIVE CommonLen(_, _)
CommonLen(a, b) ==
    IF Len(a) = 0 \/ Len(b) = 0 \/ Head(a) # Head(b) THEN 0
    ELSE 1 + CommonLen(Tail(a), Tail(b))

Rel(base, target) ==
    LET b == Names(Clean(base))
        t == Names(Clean(target))
        k == CommonLen(b, t)
        ups == [i \in 1..(Len(b) - k) |-> DotDot]
        out == ups \o SubSeq(t, k + 1, Len(t))
    IN IF Len(out) = 0 THEN Dot ELSE JoinSep(out)

\* escapingfs.TargetWithinRoot: containment by path component
TargetWithinRoot(root, target) ==
    IF Len(target) = 0 \/ Len(root) = 0 THEN FALSE
    ELSE LET rel == Clean(Rel(Clean(root), Clean(target)))
             components == Split(rel)
         IN \A i \in 1..Len(components) : components[i] # DotDot

-----------------------------------------------------------------------------
(* The file system the unpacker writes to *)

\* Permission bits, as numbers: 0755, 0644, 0600, 0400.
Mode0755 == 493
Mode0644 == 420
Mode0600 == 384
Mode0400 == 256

\* the owner's write bit (0200)
OwnerWritable(mode) == (mode \div 128) % 2 = 1

\* Header modification times are 1..MaxModTime (seconds); the clock of the
\* machine that unpacks is later than every one of them.
MaxModTime == 2
Now == MaxModTime + 1

\* How deep a chain of symlinks the kernel follows in the model.
MaxLinkDepth == 3

DirNode(mtime) ==
    [kind |-> "dir", mode |-> Mode0755, mtime |-> mtime, target |-> <<>>, body |-> "none"]
FileNode(mode, body) ==
    [kind |-> "file", mode |-> mode, mtime |-> Now, target |-> <<>>, body |-> body]
LinkNode(target) ==
    [kind |-> "symlink", mode |-> Mode0755, mtime |-> Now, target |-> target, body |-> "none"]

Front(s) == SubSeq(s, 1, Len(s) - 1)

\* Path resolution as the kernel does it, from the real directory cur along
\* the elements rest: symlinks in inner elements are followed, the last one
\* only when followLast.  st is "ok" (real is the node), "absent" (real is
\* where the node would be, in an existing directory) or an error.
RECURSIVE Walk(_, _, _, _, _)
Walk(fsys, cur, rest, followLast, fuel) ==
    IF Len(rest) = 0 THEN [st |-> "ok", real |-> cur]
    ELSE LET c == Head(rest)
             more == Tail(rest)
             child == Append(cur, c)
         IN IF fsys[cur].kind # "dir" THEN [st |-> "enotdir", real |-> cur]
            ELSE IF c = <<>> \/ c = Dot THEN Walk(fsys, cur, more, followLast, fuel)
            ELSE IF c = DotDot
                 THEN Walk(fsys, IF Len(cur) = 0 THEN cur ELSE Front(cur), more, followLast, fuel)
            ELSE IF child \notin DOMAIN fsys
                 THEN IF Len(more) = 0 THEN [st |-> "absent", real |-> child]
                      ELSE [st |-> "enoent", real |-> child]
            ELSE IF fsys[child].kind = "symlink" /\ (Len(more) > 0 \/ followLast)
                 THEN IF fuel = 0 THEN [st |-> "eloop", real |-> child]
                      ELSE Walk(fsys,
                                IF IsAbs(fsys[child].target) THEN <<>> ELSE cur,
                                Split(fsys[child].target) \o more, followLast, fuel - 1)
            ELSE Walk(fsys, child, more, followLast, fuel)

\* os.Lstat and os.Stat of a clean absolute path
Lstat(fsys, p) == Walk(fsys, <<>>, Names(p), FALSE, MaxLinkDepth)
Stat(fsys, p) == Walk(fsys, <<>>, Names(p), TRUE, MaxLinkDepth)

\* A new node in a directory: the directory's modification time changes.
AddNode(fsys, real, node) ==
    LET parent == Front(real)
    IN [q \in DOMAIN fsys \cup {real} |->
            IF q = real THEN node
            ELSE IF q = parent THEN [fsys[q] EXCEPT !.mtime = Now]
            ELSE fsys[q]]

\* os.Mkdir
Mkdir(fsys, p) ==
    LET r == Lstat(fsys, p)
    IN IF r.st = "absent"
       THEN [err |-> "none", fs |-> AddNode(fsys, r.real, DirNode(Now))]
       ELSE [err |-> IF r.st = "ok" THEN "eexist" ELSE r.st, fs |-> fsys]

\* os.MkdirAll: nothing to do for an existing directory, else the parent
\* first and then the directory itself.
RECURSIVE MkdirAll(_, _)
MkdirAll(fsys, p) ==
    LET r == Stat(fsys, p)
    IN IF r.st = "ok"
       THEN [err |-> IF fsys[r.real].kind = "dir" THEN "none" ELSE "enotdir", fs |-> fsys]
       ELSE IF p = <<Sep>> THEN [err |-> r.st, fs |-> fsys]
       ELSE LET up == MkdirAll(fsys, Dir(p))
            IN IF up.err # "none" THEN up ELSE Mkdir(up.fs, p)

\* os.Symlink(linkname, p)
Symlink(fsys, linkname, p) ==
    LET r == Lstat(fsys, p)
    IN IF r.st = "absent"
       THEN [err |-> "none", fs |-> AddNode(fsys, r.real, LinkNode(linkname))]
       ELSE [err |-> IF r.st = "ok" THEN "eexist" ELSE r.st, fs |-> fsys]

\* os.Create(p): O_CREATE|O_TRUNC through symlinks; a new file gets 0644
\* (0666 under the usual umask), an existing one must be writable.
Create(fsys, p) ==
    LET r == Stat(fsys, p)
    IN IF r.st = "absent"
       THEN [err |-> "none", fs |-> AddNode(fsys, r.real, FileNode(Mode0644, "empty")),
             real |-> r.real]
       ELSE IF r.st # "ok" THEN [err |-> r.st, fs |-> fsys, real |-> r.real]
       ELSE IF fsys[r.real].kind = "dir" THEN [err |-> "eisdir", fs |-> fsys, real |-> r.real]
       ELSE IF ~OwnerWritable(fsys[r.real].mode)
            THEN [err |-> "eacces", fs |-> fsys, real |-> r.real]
       ELSE [err |-> "none",
             fs |-> [fsys EXCEPT ![r.real].body = "empty", ![r.real].mtime = Now],
             real |-> r.real]

\* os.Chmod(p, mode), through symlinks
Chmod(fsys, p, mode) ==
    LET r == Stat(fsys, p)
    IN IF r.st = "ok"
       THEN [err |-> "none", fs |-> [fsys EXCEPT ![r.real].mode = mode]]
       ELSE [err |-> IF r.st = "absent" THEN "enoent" ELSE r.st, fs |-> fsys]

\* io.Copy(fh, untar): the body of the entry becomes the content of the file
\* the handle refers to.
CopyBody(fsys, real, body) ==
    [fsys EXCEPT ![real].body = body, ![real].mtime = Now]

-----------------------------------------------------------------------------
(* slug.Unpack *)

\* Given a root directory, the path of a symlink and its target,
\* checkSymlink accepts the target ("none") or returns an IllegalSlugError.
RECURSIVE AllowedBy(_, _, _)
AllowedBy(allow, absRoot, absTarget) ==
    IF Len(allow) = 0 THEN FALSE
    ELSE LET given == Head(allow)
             prefix == IF IsAbs(given) THEN given ELSE Join(absRoot, given)
             dirPrefix == IF HasSuffix(prefix, <<Sep>>) THEN prefix ELSE prefix \o <<Sep>>
         IN \/ absTarget = prefix
            \/ HasPrefix(absTarget, dirPrefix)
            \/ AllowedBy(Tail(allow), absRoot, absTarget)

AbsTargetOf(root, path, target) ==
    LET absRoot == Clean(root)
        absPath == IF IsAbs(path) THEN path ELSE Join(absRoot, path)
    IN IF IsAbs(target) THEN Clean(target) ELSE Join(Dir(absPath), target)

checkSymlink(allow, root, path, target) ==
    LET absRoot == Clean(root)
        absTarget == AbsTargetOf(root, path, target)
    IN IF HasPrefix(absTarget, absRoot) THEN "none"
       ELSE IF AllowedBy(allow, absRoot, absTarget) THEN "none"
       ELSE "IllegalSlugError: has external target"

\* The check for paths outside the destination directory.
OutsideDst(target, dst) == ~HasPrefix(target, dst)

\* The Lstat of each path component from dst up to the immediate parent of
\* the entry: "none" when no component is a symlink.  A component that does
\* not exist ends the scan.
RECURSIVE ThroughSymlinkScan(_, _, _, _)
ThroughSymlinkScan(fsys, currentPath, components, i) ==
    IF i > Len(components) - 1 THEN "none"
    ELSE LET next == Join(currentPath, components[i])
             fi == Lstat(fsys, next)
         IN IF fi.st \in {"absent", "enoent"} THEN "none"
            ELSE IF fi.st # "ok" THEN "failed to evaluate path"
            ELSE IF fsys[fi.real].kind = "symlink"
                 THEN "IllegalSlugError: cannot extract through symlink"
            ELSE ThroughSymlinkScan(fsys, next, components, i + 1)

\* os.Create alone, without the chmod and the second attempt
CreateClobber_NoRetry(fsys, path) == Create(fsys, path)

\* os.Create with the fallback for a file that may not be written: chmod to
\* 0600 and one more os.Create.
CreateClobber(fsys, path) ==
    LET first == Create(fsys, path)
    IN IF first.err = "eacces"
       THEN Create(Chmod(fsys, path, Mode0600).fs, path)
       ELSE first

\* A regular file entry: create, copy the body, restore the mode.
UnpackRegular(fsys, path, h) ==
    LET fh == CreateClobber(fsys, path)
    IN IF fh.err # "none" THEN [err |-> "failed creating file", fs |-> fh.fs]
       ELSE LET copied == CopyBody(fh.fs, fh.real, h.Body)
                moded == Chmod(copied, path, h.Mode)
            IN IF moded.err # "none"
               THEN [err |-> "failed setting permissions", fs |-> copied]
               ELSE [err |-> "none", fs |-> moded.fs]

\* One iteration of the loop of Unpack, for the header h.
UnpackEntry(fsys, allow, dst, h) ==
    IF Len(h.Name) = 0 THEN [err |-> "panic: index out of range", fs |-> fsys]
    ELSE
    LET stripped == IF h.Name[1] = Sep THEN Tail(h.Name) ELSE h.Name
        path == Join(dst, stripped)
        target == Clean(path)
        scan == ThroughSymlinkScan(fsys, dst, Split(h.Name), 1)
        made == MkdirAll(fsys, Dir(path))
    IN IF OutsideDst(target, dst)
       THEN [err |-> "IllegalSlugError: invalid filename, traversal", fs |-> fsys]
       ELSE IF scan # "none" THEN [err |-> scan, fs |-> fsys]
       ELSE IF made.err # "none" THEN [err |-> "failed to create directory", fs |-> made.fs]
       ELSE IF h.Typeflag = "symlink"
            THEN LET chk == checkSymlink(allow, dst, h.Name, h.Linkname)
                     link == Symlink(made.fs, h.Linkname, path)
                 IN IF chk # "none" THEN [err |-> chk, fs |-> made.fs]
                    ELSE IF link.err # "none"
                         THEN [err |-> "failed creating symlink", fs |-> made.fs]
                    ELSE [err |-> "none", fs |-> link.fs]
       ELSE IF h.Typeflag \in {"dir", "xglobalheader", "xheader"}
            THEN [err |-> "none", fs |-> made.fs]
       ELSE IF h.Typeflag \notin {"reg", "rega"}
            THEN [err |-> "unsupported type", fs |-> made.fs]
       ELSE UnpackRegular(made.fs, path, h)

-----------------------------------------------------------------------------
(* The archives and the destination the unpacker is run on *)

\* The destination directory dst, /t/d; /t/d2 and /t/e are beside it.
DstDir == <<"/", "t", "/", "d">>

\* The longest archive.
MaxEntries == 2

Hdr(name, typeflag, linkname, modTime, mode, body) ==
    [Name |-> name, Typeflag |-> typeflag, Linkname |-> linkname,
     ModTime |-> modTime, Mode |-> mode, Body |-> body]

Headers ==
    { Hdr(<<"a", "/">>, "dir", <<>>, 1, Mode0755, "none"),
      Hdr(<<"a", "/", "x">>, "reg", <<>>, 2, Mode0644, "b1"),
      Hdr(<<"a", "/", "l">>, "symlink", <<".", ".">>, 1, Mode0755, "none"),
      Hdr(<<"a", "/", "l", "/", "x">>, "reg", <<>>, 1, Mode0644, "b1"),
      Hdr(<<"f", "/", ".", ".", "/", "a", "/", "l", "/", "x">>, "reg", <<>>, 1, Mode0644, "b1"),
      Hdr(<<".", ".", "/", "d", "2", "/", "x">>, "reg", <<>>, 1, Mode0644, "b1"),
      Hdr(<<".", ".", "/", "e", "/", "x">>, "reg", <<>>, 1, Mode0644, "b1"),
      Hdr(<<"s">>, "symlink", <<".", ".", "/", "d", "2">>, 1, Mode0755, "none"),
      Hdr(<<"o">>, "symlink", <<"/", "o", "/", "p">>, 1, Mode0755, "none"),
      Hdr(<<"q">>, "symlink", <<"/", "o", "2">>, 1, Mode0755, "none"),
      Hdr(<<"r">>, "symlink", <<".", ".", "/", "e">>, 1, Mode0755, "none"),
      Hdr(<<"x">>, "reg", <<>>, 1, Mode0400, "b1"),
      Hdr(<<"x">>, "reg", <<>>, 2, Mode0644, "b2"),
      Hdr(<<"p">>, "fifo", <<>>, 1, Mode0644, "none"),
      Hdr(<<>>, "reg", <<>>, 1, Mode0644, "b1"),
      Hdr(<<"/", "x">>, "reg", <<>>, 1, Mode0644, "b1") }

RECURSIVE SeqsUpTo(_, _)
SeqsUpTo(S, n) ==
    IF n = 0 THEN {<<>>}
    ELSE LET shorter == SeqsUpTo(S, n - 1)
         IN shorter \cup {Append(q, e) : q \in {r \in shorter : Len(r) = n - 1}, e \in S}

Archives == SeqsUpTo(Headers, MaxEntries)

\* The values of Packer.allowSymlinkTargets: none, or /o.
AllowChoices == { <<>>, << <<"/", "o">> >> }

\* Before Unpack: the destination exists and is empty.
InitialFS ==
    [q \in {<<>>, << <<"t">> >>, << <<"t">>, <<"d">> >>} |-> DirNode(0)]

\* What the entry h did: the nodes it created or changed, whether its cleaned
\* destination is inside dst by path components, whether a parent of that
\* destination below dst was a symlink when the entry was read, and for a
\* symlink entry the verdict of checkSymlink.
CleanDest(h) ==
    Clean(Join(DstDir, IF IsAbs(h.Name) THEN Tail(h.Name) ELSE h.Name))

ParentIsSymlink(fsys, h) ==
    LET t == Names(CleanDest(h))
        d == Names(DstDir)
    IN \E k \in (Len(d) + 1)..(Len(t) - 1) :
          LET fi == Lstat(fsys, PathOf(SubSeq(t, 1, k)))
          IN fi.st = "ok" /\ fsys[fi.real].kind = "symlink"

LogOf(fsys, allow, h, r) ==
    [hdr |-> h,
     err |-> r.err,
     touched |-> {q \in DOMAIN r.fs : q \notin DOMAIN fsys \/ r.fs[q] # fsys[q]},
     within |-> TargetWithinRoot(DstDir, CleanDest(h)),
     through |-> ParentIsSymlink(fsys, h),
     absTarget |-> IF h.Typeflag = "symlink"
                   THEN AbsTargetOf(DstDir, h.Name, h.Linkname) ELSE <<>>,
     allow |-> allow]

UnpackInit ==
    /\ fs = InitialFS
    /\ archive \in Archives
    /\ pos = 1
    /\ unpackErr = "running"
    /\ allowSymlinkTargets \in AllowChoices
    /\ entryLog = <<>>
    /\ NoBuilder
    /\ NoTools

\* untar.Next() returned a header: one iteration of the loop.
UnpackNext ==
    /\ unpackErr = "running"
    /\ pos <= Len(archive)
    /\ LET h == archive[pos]
           r == UnpackEntry(fs, allowSymlinkTargets, DstDir, h)
       IN /\ fs' = r.fs
          /\ entryLog' = Append(entryLog, LogOf(fs, allowSymlinkTargets, h, r))
          /\ unpackErr' = IF r.err = "none" THEN "running" ELSE r.err
    /\ pos' = pos + 1
    /\ UNCHANGED <<archive, allowSymlinkTargets>>
    /\ UNCHANGED <<builderVars, toolVars>>

\* untar.Next() returned io.EOF: Unpack returns nil.
UnpackEOF ==
    /\ unpackErr = "running"
    /\ pos > Len(archive)
    /\ unpackErr' = "ok"
    /\ UNCHANGED <<fs, archive, pos, allowSymlinkTargets, entryLog>>
    /\ UNCHANGED <<builderVars, toolVars>>

UnpackStep == UnpackNext \/ UnpackEOF

SpecUnpack == UnpackInit /\ [][UnpackStep]_vars

-----------------------------------------------------------------------------
(* Claims about slug.Unpack *)

IsIllegalSlugError(e) ==
    e \in {"IllegalSlugError: invalid filename, traversal",
           "IllegalSlugError: cannot extract through symlink",
           "IllegalSlugError: has external target"}

\* C1: every entry whose cleaned destination path is not inside the
\* destination directory by path-component containment makes Unpack return
\* an IllegalSlugError and creates nothing; sharing a string prefix with the
\* destination ("../d2/x" for /t/d) does not count as being inside.
C1_EscapingEntryRejected ==
    \A i \in DOMAIN entryLog :
        ~entryLog[i].within =>
            /\ IsIllegalSlugError(entryLog[i].err)
            /\ entryLog[i].touched = {}

\* C2: every entry whose destination passes through a symlink at a parent
\* component (also one made by an earlier entry, also when the name reaches
\* it through ".." segments) fails with the IllegalSlugError "cannot extract
\* through symlink", and nothing is written through the symlink.
C2_ThroughSymlinkRejected ==
    \A i \in DOMAIN entryLog :
        (entryLog[i].within /\ entryLog[i].through) =>
            /\ entryLog[i].err = "IllegalSlugError: cannot extract through symlink"
            /\ entryLog[i].touched = {}

\* The targets C3 accepts: the root, a path under the root by path
\* components, an allowed target, or a path under an allowed target followed
\* by a separator.
RECURSIVE UnderAllowed(_, _, _)
UnderAllowed(allow, absRoot, absTarget) ==
    IF Len(allow) = 0 THEN FALSE
    ELSE LET prefix == IF IsAbs(Head(allow)) THEN Head(allow)
                       ELSE Join(absRoot, Head(allow))
         IN \/ absTarget = prefix
            \/ HasPrefix(absTarget, IF HasSuffix(prefix, <<Sep>>) THEN prefix
                                    ELSE prefix \o <<Sep>>)
            \/ UnderAllowed(Tail(allow), absRoot, absTarget)

AcceptableTarget(allow, absRoot, absTarget) ==
    \/ absTarget = absRoot
    \/ TargetWithinRoot(absRoot, absTarget)
    \/ UnderAllowed(allow, absRoot, absTarget)

\* the symlink entries that reached checkSymlink
ReachedCheckSymlink(e) ==
    /\ e.hdr.Typeflag = "symlink"
    /\ e.err \in {"none", "IllegalSlugError: has external target", "failed creating symlink"}

\* C3: a symlink is accepted if and only if its absolute target is the root,
\* lies under the root by path components, is an allowed target or lies under
\* one; a target that only shares a string prefix with the root or with an
\* allowed path is rejected with an IllegalSlugError.
C3_SymlinkAcceptedIffInsideOrAllowed ==
    \A i \in DOMAIN entryLog :
        ReachedCheckSymlink(entryLog[i]) =>
            ((entryLog[i].err # "IllegalSlugError: has external target")
                <=> AcceptableTarget(entryLog[i].allow, DstDir, entryLog[i].absTarget))

\* the directory a directory header names
DirOfHeader(h) == Names(CleanDest(h))

\* C10: after a successful Unpack every directory's modification time is the
\* one its archive header stores, whatever the order of the entries.
C10_DirectoryTimesRestored ==
    unpackErr = "ok" =>
        \A i \in DOMAIN archive :
            (/\ archive[i].Typeflag = "dir"
             /\ DirOfHeader(archive[i]) \in DOMAIN fs)
                => fs[DirOfHeader(archive[i])].mtime = archive[i].ModTime

\* the log entries of regular files that repeat the name of an earlier
\* regular file of the archive
RepeatsEarlierFile(i) ==
    /\ entryLog[i].hdr.Typeflag = "reg"
    /\ \E j \in 1..(i - 1) :
          /\ entryLog[j].hdr.Typeflag = "reg"
          /\ entryLog[j].hdr.Name = entryLog[i].hdr.Name

\* C12: a regular-file entry that repeats the name of an earlier one is
\* extracted without error, also when the earlier one left the file without
\* write permission, and right after it the file holds its content and its
\* permission bits: later entries clobber earlier ones.
C12_LaterDuplicateClobbers ==
    \A i \in DOMAIN entryLog :
        RepeatsEarlierFile(i) =>
            /\ entryLog[i].err = "none"
            /\ (i = Len(entryLog) =>
                  LET r == Stat(fs, CleanDest(entryLog[i].hdr))
                  IN /\ r.st = "ok"
                     /\ fs[r.real].kind = "file"
                     /\ fs[r.real].body = entryLog[i].hdr.Body
                     /\ fs[r.real].mode = entryLog[i].hdr.Mode)

\* Unpack returned nil for an archive of two files x, the first read-only,
\* and x has the content of the second.
C12_Witness ==
    /\ unpackErr = "ok"
    /\ Len(entryLog) = 2
    /\ RepeatsEarlierFile(2)
    /\ entryLog[1].hdr.Mode = Mode0400
    /\ entryLog[2].hdr.Body # entryLog[1].hdr.Body
    /\ fs[Names(CleanDest(entryLog[2].hdr))].body = entryLog[2].hdr.Body

\* the header name after the leading "/" is stripped
StrippedName(name) == IF IsAbs(name) THEN Tail(name) ELSE name

\* C13: an entry whose name is empty after the leading "/" is stripped makes
\* Unpack return an error, without a crash and without creating anything.
C13_EmptyNameRejected ==
    \A i \in DOMAIN entryLog :
        StrippedName(entryLog[i].hdr.Name) = <<>> =>
            /\ entryLog[i].err \notin {"none", "panic: index out of range"}
            /\ entryLog[i].touched = {}

-----------------------------------------------------------------------------
(* Source addresses (sourceaddrs) *)

\* An address string is a sequence whose elements are the separator
\* characters ":", "/", "?", "." and alphanumeric words.

\* strings.Index(s[from:], sub), as an index into s; 0 when absent
RECURSIVE IndexFrom(_, _, _)
IndexFrom(s, sub, from) ==
    IF from + Len(sub) - 1 > Len(s) THEN 0
    ELSE IF SubSeq(s, from, from + Len(sub) - 1) = sub THEN from
    ELSE IndexFrom(s, sub, from + 1)

Index(s, sub) == IndexFrom(s, sub, 1)

\* fs.ValidPath: "." or slash-separated elements none of which is empty,
\* "." or ".."
ValidPath(name) ==
    \/ name = Dot
    \/ /\ Len(name) > 0
       /\ \A e \in { Split(name)[i] : i \in 1..Len(Split(name)) } :
              e # <<>> /\ e # Dot /\ e # DotDot

\* normalizeSubpath, given fs.ValidPath and path.Clean of its argument
NormalizedSubpath(valid, clean) ==
    IF ~valid \/ clean = Dot
    THEN [err |-> "invalid sub-path", subPath |-> <<>>]
    ELSE [err |-> "", subPath |-> clean]

\* normalizeSubpath
normalizeSubpath(given) ==
    IF given = <<>> THEN [err |-> "", subPath |-> <<>>]
    ELSE NormalizedSubpath(ValidPath(given), Clean(given))

\* splitSubPath: where the part that may hold the sub-path stops, at the
\* query string
QueryStop(src) ==
    LET q == Index(src, <<"?">>)
    IN IF q > 0 THEN q - 1 ELSE Len(src)

\* splitSubPath: the offset that keeps the scheme's "//" out of the search
SchemeOffset(head) ==
    LET sch == Index(head, <<":", "/", "/">>)
    IN IF sch > 0 THEN sch + 3 ELSE 1

\* splitSubPath: the query string found after the sub-path is pushed back
\* onto the package part
PushQuery(front, subdir, q) ==
    IF q > 0
    THEN [src |-> front \o SubSeq(subdir, q, Len(subdir)),
          subdir |-> SubSeq(subdir, 1, q - 1)]
    ELSE [src |-> front, subdir |-> subdir]

\* splitSubPath: the split at the explicit "//", if there is one
SplitAt(src, idx) ==
    IF idx = 0 THEN [src |-> src, subdir |-> <<>>]
    ELSE PushQuery(SubSeq(src, 1, idx - 1), SubSeq(src, idx + 2, Len(src)),
                   Index(SubSeq(src, idx + 2, Len(src)), <<"?">>))

\* The first "//" after the scheme in the part before the query string
SubdirIndex(head) == IndexFrom(head, <<"/", "/">>, SchemeOffset(head))

\* splitSubPath
splitSubPath(src) == SplitAt(src, SubdirIndex(SubSeq(src, 1, QueryStop(src))))

\* A join that returns whatever path.Join made
joinSubPath_Unchecked(subPath, rel) ==
    [err |-> "", subPath |-> Join(subPath, rel)]

\* joinSubPath
joinSubPath(subPath, rel) ==
    LET new == Join(subPath, rel)
    IN IF new = Dot THEN [err |-> "", subPath |-> <<>>]
       ELSE IF ~ValidPath(new)
            THEN [err |-> "traverses up too many levels", subPath |-> <<>>]
            ELSE [err |-> "", subPath |-> new]

\* url.URL.String, for a URL with a scheme and a host and no user
URLString(u) ==
    u.Scheme \o <<":", "/", "/">> \o u.Host \o u.Path
        \o (IF u.RawQuery = <<>> THEN <<>> ELSE <<"?">> \o u.RawQuery)

\* url.Parse: the authority follows "//" and the path starts at the next "/"
URLHostPath(scheme, auth, sl, query) ==
    [Scheme |-> scheme,
     Host |-> IF sl > 0 THEN SubSeq(auth, 1, sl - 1) ELSE auth,
     Path |-> IF sl > 0 THEN SubSeq(auth, sl, Len(auth)) ELSE <<>>,
     RawQuery |-> query]

URLAuthority(scheme, rest, query) ==
    IF HasPrefix(rest, <<"/", "/">>)
    THEN URLHostPath(scheme, SubSeq(rest, 3, Len(rest)),
                     Index(SubSeq(rest, 3, Len(rest)), <<"/">>), query)
    ELSE [Scheme |-> scheme, Host |-> <<>>, Path |-> rest, RawQuery |-> query]

\* url.Parse: the query starts at the first "?"
URLQuery(scheme, rest, q) ==
    URLAuthority(scheme,
                 IF q > 0 THEN SubSeq(rest, 1, q - 1) ELSE rest,
                 IF q > 0 THEN SubSeq(rest, q + 1, Len(rest)) ELSE <<>>)

\* url.Parse: the scheme ends at the first ":"
URLScheme(raw, c) ==
    URLQuery(IF c > 1 THEN SubSeq(raw, 1, c - 1) ELSE <<>>,
             IF c > 1 THEN SubSeq(raw, c + 1, Len(raw)) ELSE raw,
             Index(IF c > 1 THEN SubSeq(raw, c + 1, Len(raw)) ELSE raw,
                   <<"?">>))

\* url.Parse
URLParse(raw) == URLScheme(raw, Index(raw, <<":">>))

\* remoteSourceTypes, and the PrepareURL of each source type
PrepareURLOk(sourceType, u) ==
    CASE sourceType = <<"git">> ->
             /\ u.Scheme \in { <<"ssh">>, <<"https">> }
             /\ u.RawQuery = <<>> \/ u.RawQuery[1] = "ref"
      [] sourceType = <<"https">> -> u.Scheme = <<"https">>
      [] sourceType = <<"http">> -> FALSE
      [] OTHER -> FALSE

NoRemoteSource ==
    [pkg |-> [sourceType |-> <<>>,
              url |-> [Scheme |-> <<>>, Host |-> <<>>, Path |-> <<>>,
                       RawQuery |-> <<>>]],
     subPath |-> <<>>]

\* makeRemoteSource
makeRemoteSource(sourceType, u, subPath) ==
    IF ~PrepareURLOk(sourceType, u)
    THEN [err |-> "unsupported source type or URL", addr |-> NoRemoteSource]
    ELSE [err |-> "",
          addr |-> [pkg |-> [sourceType |-> sourceType, url |-> u],
                    subPath |-> subPath]]

\* RemotePackage.String
RemotePackageString(p) ==
    IF p.url.Scheme = p.sourceType THEN URLString(p.url)
    ELSE p.sourceType \o <<":", ":">> \o URLString(p.url)

\* RemotePackage.subPathString and RemoteSource.String
RemoteSourceString(s) ==
    IF s.subPath = <<>> THEN RemotePackageString(s.pkg)
    ELSE LET subURL == [s.pkg.url EXCEPT
                            !.Path = @ \o <<"/", "/">> \o s.subPath]
         IN IF subURL.Scheme = s.pkg.sourceType THEN URLString(subURL)
            ELSE s.pkg.sourceType \o <<":", ":">> \o URLString(subURL)

\* ParseRemoteSource, from the parsed URL on
ParseRemoteURL(sub, explicitType, u) ==
    IF sub.err # "" THEN [err |-> sub.err, addr |-> NoRemoteSource]
    ELSE IF u.Scheme = <<>>
    THEN [err |-> "must contain an absolute URL with a scheme",
          addr |-> NoRemoteSource]
    ELSE IF explicitType = u.Scheme
    THEN [err |-> "redundant source type", addr |-> NoRemoteSource]
    ELSE makeRemoteSource(IF explicitType = <<>> THEN u.Scheme
                          ELSE explicitType, u, sub.subPath)

\* ParseRemoteSource: remoteSourceTypePattern splits "sourcetype::" off
ParseRemoteTyped(sub, src, typed) ==
    ParseRemoteURL(sub,
                   IF typed THEN SubSeq(src, 1, 1) ELSE <<>>,
                   URLParse(IF typed THEN SubSeq(src, 4, Len(src)) ELSE src))

ParseRemoteSplit(sp) ==
    ParseRemoteTyped(normalizeSubpath(sp.subdir), sp.src,
                     Len(sp.src) > 3 /\ SubSeq(sp.src, 2, 3) = <<":", ":">>)

\* ParseRemoteSource, for a string none of the shorthands applies to
ParseRemoteSource(given) == ParseRemoteSplit(splitSubPath(given))

\* ParseRemotePackage, given what ParseRemoteSource returned
RemotePackageOf(r) ==
    IF r.err # "" THEN [err |-> r.err, pkg |-> NoRemoteSource.pkg]
    ELSE IF r.addr.subPath # <<>>
    THEN [err |-> "remote package address may not have a sub-path",
          pkg |-> NoRemoteSource.pkg]
    ELSE [err |-> "", pkg |-> r.addr.pkg]

\* ParseRemotePackage
ParseRemotePackage(given) == RemotePackageOf(ParseRemoteSource(given))

\* regaddr.DefaultModuleRegistryHost
DefaultModuleRegistryHost == <<"registry", ".", "terraform", ".", "io">>

\* regaddr.ModulePackage.String: the default host is left out
ModulePackageString(p) ==
    (IF p.Host = DefaultModuleRegistryHost THEN <<>> ELSE p.Host \o <<"/">>)
        \o p.Namespace \o <<"/">> \o p.Name \o <<"/">> \o p.TargetSystem

NoModulePackage ==
    [Host |-> <<>>, Namespace |-> <<>>, Name |-> <<>>, TargetSystem |-> <<>>]

\* regaddr.ParseModuleSource of the part before the sub-path: three parts
\* with the default host, or four with an explicit one
ModulePackageOf(sub, subdir, parts) ==
    IF sub.err # "" \/ subdir # <<>> \/ Len(parts) \notin {3, 4}
    THEN [err |-> "invalid registry package address", pkg |-> NoModulePackage]
    ELSE IF Len(parts) = 3
    THEN [err |-> "",
          pkg |-> [Host |-> DefaultModuleRegistryHost, Namespace |-> parts[1],
                   Name |-> parts[2], TargetSystem |-> parts[3]]]
    ELSE [err |-> "",
          pkg |-> [Host |-> parts[1], Namespace |-> parts[2],
                   Name |-> parts[3], TargetSystem |-> parts[4]]]

ParseRegistrySplit(sp) ==
    ModulePackageOf(normalizeSubpath(sp.subdir), sp.subdir, Split(sp.src))

\* ParseRegistryPackage
ParseRegistryPackage(given) == ParseRegistrySplit(splitSubPath(given))

\* A final address that drops the registry source's own sub-path
FinalSourceAddr_NoSubPath(s, realSource) == realSource

\* RegistrySource.FinalSourceAddr
FinalSourceAddr(s, realSource) ==
    IF s.subPath = <<>> THEN realSource
    ELSE IF realSource.subPath = <<>>
         THEN [pkg |-> realSource.pkg, subPath |-> s.subPath]
         ELSE [pkg |-> realSource.pkg,
               subPath |-> Join(realSource.subPath, s.subPath)]

\* versions.Version.String and versions.ParseVersion, for the versions
\* N.0.0 with N a single digit
DigitChars == <<"1", "2", "3", "4", "5", "6", "7", "8", "9">>

VersionString(v) == <<DigitChars[v], ".", "0", ".", "0">>

ParseVersion(str) ==
    IF Len(str) = 5 /\ SubSeq(str, 2, 5) = <<".", "0", ".", "0">>
       /\ \E v \in 1..Len(DigitChars) : DigitChars[v] = str[1]
    THEN [err |-> "",
          version |-> CHOOSE v \in 1..Len(DigitChars) : DigitChars[v] = str[1]]
    ELSE [err |-> "invalid version", version |-> 0]

-----------------------------------------------------------------------------
(* The collaborators of the builder: fetcher, registry, dependency finders *)

\* Put and lookup in a Go map
Put(m, k, v) == (k :> v) @@ m

Has(m, k) == k \in DOMAIN m

HttpsURL(host, path, query) ==
    [Scheme |-> <<"https">>, Host |-> host, Path |-> path, RawQuery |-> query]

\* The remote packages of the builder tests: a git repository at a ref, an
\* archive, and a second git address of the same repository
PkgA ==
    [sourceType |-> <<"git">>,
     url |-> HttpsURL(<<"a">>, <<"/", "r">>, <<"ref", "=", "main">>)]

PkgB ==
    [sourceType |-> <<"https">>,
     url |-> HttpsURL(<<"b">>, <<"/", "p", ".", "tgz">>, <<>>)]

PkgC ==
    [sourceType |-> <<"git">>, url |-> HttpsURL(<<"a">>, <<"/", "r">>, <<>>)]

RemotePackages == {PkgA, PkgB, PkgC}

RemoteSrc(pkg, subPath) == [pkg |-> pkg, subPath |-> subPath]

SubM == <<"m">>

\* The tree the fetcher writes for each package: a set of files. The two
\* git addresses yield the same files; one of them also yields the
\* repository's ".git" directory.
FetchedTree(pkg) ==
    CASE pkg = PkgA -> {<<"main">>, <<"m", "/", "main">>}
      [] pkg = PkgB -> {<<"mod">>, <<"junk">>, <<".terraformignore">>}
      [] pkg = PkgC -> {<<"main">>, <<"m", "/", "main">>,
                        <<".git", "/", "HEAD">>}

\* PackageMeta of the fetcher's response: git commit ID, or "" for none
FetchedMeta(pkg) ==
    CASE pkg = PkgA -> "commit1"
      [] pkg = PkgB -> ""
      [] pkg = PkgC -> "commit1"

\* How an installation of the package can end: "ok", or the step that fails
InstallOutcomes(pkg) ==
    IF pkg = PkgB THEN {"ok", "tempdir", "fetch", "prepare", "place"}
    ELSE {"ok"}

\* ignorefiles.LoadPackageIgnoreRules and the rules' Excludes: the default
\* rules, which exclude .git and .terraform, and after them the rules of
\* the package's own .terraformignore (here excluding "junk")
Excluded(tree, file) ==
    \/ Split(file)[1] \in { <<".git">>, <<".terraform">> }
    \/ <<".terraformignore">> \in tree /\ file = <<"junk">>

\* filepath.Walk with packagePrepareWalkFn: remove what the rules exclude
PreparedTree(tree) == { f \in tree : ~Excluded(tree, f) }

\* The order dirhash.Hash1 lists files in
FileOrder ==
    << <<".git", "/", "HEAD">>, <<".terraformignore">>, <<"junk">>,
       <<"m", "/", "main">>, <<"main">>, <<"mod">> >>

\* dirhash.HashDir, trimmed and re-encoded as a directory name: a digest of
\* the sorted list of files, modelled collision free as the names in order
RECURSIVE HashFrom(_, _)
HashFrom(tree, i) ==
    IF i > Len(FileOrder) THEN <<>>
    ELSE (IF FileOrder[i] \in tree
          THEN <<"-">> \o SelectSeq(FileOrder[i], LAMBDA c : c # Sep)
          ELSE <<>>) \o HashFrom(tree, i + 1)

HashDir(tree) == <<"h1">> \o HashFrom(tree, 1)

\* Registry packages
RegX ==
    [Host |-> DefaultModuleRegistryHost, Namespace |-> <<"n">>,
     Name |-> <<"x">>, TargetSystem |-> <<"t">>]

RegY ==
    [Host |-> <<"example", ".", "com">>, Namespace |-> <<"n">>,
     Name |-> <<"y">>, TargetSystem |-> <<"t">>]

RegistryPackages == {RegX, RegY}

RegistrySrc(pkg, subPath) == [pkg |-> pkg, subPath |-> subPath]

\* RegistryClient.ModulePackageVersions: the versions in the response
ModulePackageVersions(pkg) ==
    IF pkg = RegX THEN <<2, 1>> ELSE <<1>>

\* How the versions request can end
VersionsOutcomes(pkg) == IF pkg = RegY THEN {"ok", "error"} ELSE {"ok"}

\* RegistryClient.ModulePackageSourceAddr: the address in the response
ModulePackageSourceAddr(pkg, version) ==
    IF pkg = RegX /\ version = 1 THEN RemoteSrc(PkgA, <<>>)
    ELSE RemoteSrc(PkgA, SubM)

\* How the source address request can end
SourceAddrOutcomes(pkg, version) ==
    IF pkg = RegX /\ version = 2 THEN {"ok", "error"} ELSE {"ok"}

\* versions.List.Sort
RECURSIVE SortVersions(_)
SortVersions(vs) ==
    IF Len(vs) = 0 THEN <<>>
    ELSE LET least == CHOOSE i \in 1..Len(vs) :
                          \A j \in 1..Len(vs) : vs[i] <= vs[j]
         IN <<vs[least]>> \o
            SortVersions(SubSeq(vs, 1, least - 1)
                         \o SubSeq(vs, least + 1, Len(vs)))

\* versions.Unspecified
Unspecified == 0

\* A selection of the oldest version of the list that is in the set
NewestInSet_Oldest(vs, allowed) ==
    LET in == { vs[i] : i \in 1..Len(vs) } \cap allowed
    IN IF in = {} THEN Unspecified
       ELSE CHOOSE v \in in : \A w \in in : v <= w

\* versions.List.NewestInSet
NewestInSet(vs, allowed) ==
    LET in == { vs[i] : i \in 1..Len(vs) } \cap allowed
    IN IF in = {} THEN Unspecified
       ELSE CHOOSE v \in in : \A w \in in : w <= v

\* The version sets callers ask for
VersionSets == { {1}, {1, 2}, {3} }

\* The dependency finders
Finders == {"f1", "f2"}

RemoteDep(source, depFinder) ==
    [kind |-> "remote", remote |-> source, registry |-> RegistrySrc(RegX, <<>>),
     versions |-> {}, rel |-> <<>>, depFinder |-> depFinder]

RegistryDep(source, allowed, depFinder) ==
    [kind |-> "registry", remote |-> NoRemoteSource, registry |-> source,
     versions |-> allowed, rel |-> <<>>, depFinder |-> depFinder]

LocalDep(rel, depFinder) ==
    [kind |-> "local", remote |-> NoRemoteSource,
     registry |-> RegistrySrc(RegX, <<>>), versions |-> {}, rel |-> rel,
     depFinder |-> depFinder]

Diag(severity, summary) == [severity |-> severity, summary |-> summary]

\* DependencyFinder.FindDependencies: what each finder reports, in order,
\* for each source artifact, and the diagnostics it returns
FindDependencies(depFinder, addr) ==
    CASE depFinder = "f1" /\ addr = RemoteSrc(PkgA, <<>>) ->
             [deps |-> << RemoteDep(RemoteSrc(PkgB, <<>>), "f1"),
                          RemoteDep(RemoteSrc(PkgB, SubM), "f1") >>,
              diags |-> <<>>]
      [] depFinder = "f1" /\ addr = RemoteSrc(PkgB, <<>>) ->
             [deps |-> << RemoteDep(RemoteSrc(PkgA, <<>>), "f1") >>,
              diags |-> <<>>]
      [] depFinder = "f1" /\ addr = RemoteSrc(PkgB, SubM) ->
             [deps |-> << LocalDep(<<".", ".">>, "f1") >>,
              diags |-> <<>>]
      [] depFinder = "f1" /\ addr = RemoteSrc(PkgA, SubM) ->
             [deps |-> << RemoteDep(RemoteSrc(PkgC, <<>>), "f2") >>,
              diags |-> <<>>]
      [] depFinder = "f2" /\ addr = RemoteSrc(PkgA, <<>>) ->
             [deps |-> << LocalDep(<<".", ".", "/", "x">>, "f2") >>,
              diags |-> <<>>]
      [] depFinder = "f2" /\ addr = RemoteSrc(PkgA, SubM) ->
             [deps |-> << LocalDep(<<".", "/", "m">>, "f1") >>,
              diags |-> <<>>]
      [] depFinder = "f2" /\ addr = RemoteSrc(PkgC, <<>>) ->
             [deps |-> << RegistryDep(RegistrySrc(RegX, <<>>), {1, 2}, "f2") >>,
              diags |-> << Diag("warning", "deprecated") >>]
      [] depFinder = "f1" /\ addr = RemoteSrc(PkgA, <<"m", "/", "m">>) ->
             [deps |-> << RegistryDep(RegistrySrc(RegX, <<>>), {1, 2}, "f2") >>,
              diags |-> <<>>]
      [] depFinder = "f2" /\ addr = RemoteSrc(PkgB, <<>>) ->
             [deps |-> <<>>, diags |-> << Diag("error", "invalid module") >>]
      [] OTHER -> [deps |-> <<>>, diags |-> <<>>]

-----------------------------------------------------------------------------
(* sourcebundle.Builder *)

\* The absolute target directory NewBuilder locks in
TargetDir == <<"/", "b">>

\* A call to a collaborator, as the history records it: the package it is
\* about, the sub-path, the version or finder, and how it ended
Call(ev, subject, subPath, detail, result) ==
    [ev |-> ev, subject |-> subject, subPath |-> subPath, detail |-> detail,
     result |-> result]

\* A call of a BuildTracer callback, as the history records it
Event(ev, subject, detail) == Call(ev, subject, <<>>, detail, "")

\* The builder's fields, the bundle directory and the history, as one value
ThisBuilder ==
    [targetDir |-> targetDir, pendingRemote |-> pendingRemote,
     pendingRegistry |-> pendingRegistry, analyzed |-> analyzed,
     remotePackageDirs |-> remotePackageDirs,
     remotePackageMeta |-> remotePackageMeta,
     resolvedRegistry |-> resolvedRegistry,
     registryPackageVersions |-> registryPackageVersions,
     disk |-> disk, diags |-> diags, calls |-> calls,
     registryAdded |-> registryAdded]

\* The builder after a step
BecomesBuilder(b) ==
    /\ targetDir' = b.targetDir
    /\ pendingRemote' = b.pendingRemote
    /\ pendingRegistry' = b.pendingRegistry
    /\ analyzed' = b.analyzed
    /\ remotePackageDirs' = b.remotePackageDirs
    /\ remotePackageMeta' = b.remotePackageMeta
    /\ resolvedRegistry' = b.resolvedRegistry
    /\ registryPackageVersions' = b.registryPackageVersions
    /\ disk' = b.disk
    /\ diags' = b.diags
    /\ calls' = b.calls
    /\ registryAdded' = b.registryAdded

\* Diagnostics.HasErrors
HasErrors(ds) == \E i \in 1..Len(ds) : ds[i].severity = "error"

Remove(m, k) == [x \in DOMAIN m \ {k} |-> m[x]]

CountEvents(log, ev) == Cardinality({ i \in 1..Len(log) : log[i].ev = ev })

\* ioutil.TempDir(targetDir, ".tmp-"): a name no earlier call returned
TempDirName(b) ==
    <<".tmp-">> \o
        [i \in 1..CountEvents(b.calls, "RemotePackageDownloadStart") |-> "x"]

\* A lookup that never finds the package
ExistingDir_Miss(b, pkgAddr) == [ok |-> FALSE, dir |-> <<>>]

\* The remotePackageDirs lookup that opens ensureRemotePackage
ExistingDir(b, pkgAddr) ==
    IF Has(b.remotePackageDirs, pkgAddr)
    THEN [ok |-> TRUE, dir |-> b.remotePackageDirs[pkgAddr]]
    ELSE [ok |-> FALSE, dir |-> <<>>]

\* A directory name taken from the package address
PackageDirName_ByAddress(pkgAddr, tree) ==
    <<"h1">> \o SelectSeq(RemotePackageString(pkgAddr), LAMBDA c : c # Sep)

\* The directory name ensureRemotePackage gives a prepared package
PackageDirName(pkgAddr, tree) == HashDir(tree)

\* A deferred function that tells the tracer of successes only
DownloadEnded_SuccessOnly(subject, err) ==
    IF err = "" THEN <<Event("RemotePackageDownloadSuccess", subject, <<>>)>>
    ELSE <<>>

\* The deferred function of ensureRemotePackage: the callback that ends the
\* download, by the error the function returns
DownloadEnded(subject, err) ==
    IF err = "" THEN <<Event("RemotePackageDownloadSuccess", subject, <<>>)>>
    ELSE <<Event("RemotePackageDownloadFailure", subject, <<>>)>>

\* ensureRemotePackage, ending as outcome says
ensureRemotePackage(b, pkgAddr, outcome) ==
    LET existing == ExistingDir(b, pkgAddr)
        subject == RemotePackageString(pkgAddr)
        started == Append(b.calls,
                          Event("RemotePackageDownloadStart", subject, <<>>))
        workDir == TempDirName([b EXCEPT !.calls = started])
        fetching == Append(started,
                           Call("FetchSourcePackage", subject, <<>>, <<>>,
                                IF outcome = "fetch" THEN "error" ELSE "ok"))
        Fail(calls1, disk1, meta1, dirs1, err) ==
            [b |-> [b EXCEPT
                      !.calls = calls1 \o DownloadEnded(subject, err),
                      !.disk = disk1,
                      !.remotePackageMeta = meta1,
                      !.remotePackageDirs = dirs1],
             err |-> err, localDir |-> <<>>]
        meta == IF FetchedMeta(pkgAddr) # ""
                THEN Put(b.remotePackageMeta, pkgAddr, FetchedMeta(pkgAddr))
                ELSE b.remotePackageMeta
        tree == PreparedTree(FetchedTree(pkgAddr))
        dirName == PackageDirName(pkgAddr, tree)
        dirs == Put(b.remotePackageDirs, pkgAddr, dirName)
        prepared == Put(b.disk, workDir, tree)
        placed == IF Has(b.disk, dirName) THEN b.disk
                  ELSE Put(b.disk, dirName, tree)
    IN IF existing.ok
       THEN [b |-> [b EXCEPT !.calls = Append(b.calls,
                        Event("RemotePackageDownloadAlready", subject, <<>>))],
             err |-> "", localDir |-> existing.dir]
       ELSE CASE outcome = "tempdir" ->
                     Fail(started, b.disk, b.remotePackageMeta,
                          b.remotePackageDirs,
                          "failed to create new package directory")
              [] outcome = "fetch" ->
                     Fail(fetching, Put(b.disk, workDir, {}),
                          b.remotePackageMeta, b.remotePackageDirs,
                          "failed to fetch package")
              [] outcome = "prepare" ->
                     Fail(fetching, Put(b.disk, workDir, FetchedTree(pkgAddr)),
                          meta, b.remotePackageDirs,
                          "failed to prepare package directory")
              [] outcome = "place" ->
                     Fail(fetching, prepared, meta, dirs,
                          "failed to place final package directory")
              [] OTHER ->
                     [b |-> [b EXCEPT
                               !.calls = fetching \o DownloadEnded(subject, ""),
                               !.disk = placed,
                               !.remotePackageMeta = meta,
                               !.remotePackageDirs = dirs],
                      err |-> "", localDir |-> dirName]

\* A builder that never finds a package in registryPackageVersions
VersionsCached_Never(b, pkgAddr) == FALSE

\* availableVersions, ok := b.registryPackageVersions[pkgAddr]
VersionsCached(b, pkgAddr) == Has(b.registryPackageVersions, pkgAddr)

\* findRegistryPackageSource, its two requests ending as vOutcome and
\* sOutcome say
findRegistryPackageSource(b, sourceAddr, allowedVersions, vOutcome, sOutcome) ==
    LET pkgAddr == sourceAddr.pkg
        subject == ModulePackageString(pkgAddr)
        cached == VersionsCached(b, pkgAddr)
        asked == b.calls
                 \o << Event("RegistryPackageVersionsStart", subject, <<>>),
                       Call("ModulePackageVersions", subject, <<>>, <<>>,
                            vOutcome) >>
        availableVersions ==
            IF cached THEN b.registryPackageVersions[pkgAddr]
            ELSE SortVersions(ModulePackageVersions(pkgAddr))
        calls1 ==
            IF cached
            THEN Append(b.calls,
                        Event("RegistryPackageVersionsAlready", subject, <<>>))
            ELSE Append(asked,
                        Event("RegistryPackageVersionsSuccess", subject, <<>>))
        b1 == [b EXCEPT !.calls = calls1,
                        !.registryPackageVersions =
                            Put(@, pkgAddr, availableVersions)]
        selectedVersion == NewestInSet(availableVersions, allowedVersions)
        pkgVer == [pkg |-> pkgAddr, version |-> selectedVersion]
        resolved == Has(b.resolvedRegistry, pkgVer)
        verStr == VersionString(selectedVersion)
        asked2 == calls1
                  \o << Event("RegistryPackageSourceStart", subject, verStr),
                        Call("ModulePackageSourceAddr", subject, <<>>, verStr,
                             sOutcome) >>
        realSourceAddr ==
            IF resolved THEN b.resolvedRegistry[pkgVer]
            ELSE ModulePackageSourceAddr(pkgAddr, selectedVersion)
        calls2 ==
            IF resolved
            THEN Append(calls1,
                        Event("RegistryPackageSourceAlready", subject, verStr))
            ELSE Append(asked2,
                        Event("RegistryPackageSourceSuccess", subject, verStr))
    IN IF ~cached /\ vOutcome = "error"
       THEN [b |-> [b EXCEPT !.calls = Append(asked,
                        Event("RegistryPackageVersionsFailure", subject, <<>>))],
             err |-> "failed to query available versions",
             addr |-> NoRemoteSource, askedSource |-> Unspecified]
       ELSE IF selectedVersion = Unspecified
       THEN [b |-> b1, err |-> "no available version matches",
             addr |-> NoRemoteSource, askedSource |-> Unspecified]
       ELSE IF ~resolved /\ sOutcome = "error"
       THEN [b |-> [b1 EXCEPT !.calls = Append(asked2,
                        Event("RegistryPackageSourceFailure", subject, verStr))],
             err |-> "failed to find real source address",
             addr |-> NoRemoteSource, askedSource |-> selectedVersion]
       ELSE [b |-> [b1 EXCEPT
                      !.calls = calls2,
                      !.resolvedRegistry = Put(@, pkgVer, realSourceAddr),
                      !.registryAdded =
                          @ \cup {[addr |-> sourceAddr,
                                   version |-> selectedVersion]}],
             err |-> "",
             addr |-> FinalSourceAddr(sourceAddr, realSourceAddr),
             askedSource |-> IF resolved THEN Unspecified ELSE selectedVersion]

RemoteArtifact(sourceAddr, depFinder) ==
    [sourceAddr |-> sourceAddr, depFinder |-> depFinder]

RegistryArtifact(sourceAddr, allowedVersions, depFinder) ==
    [sourceAddr |-> sourceAddr, versions |-> allowedVersions,
     depFinder |-> depFinder]

\* An analyzed set keyed by the source address alone
IsAnalyzed_AnyFinder(done, artifact) ==
    \E a \in done : a.sourceAddr = artifact.sourceAddr

\* An analyzed set that is never consulted
IsAnalyzed_Never(done, artifact) == FALSE

\* Whether resolvePending and AddRemoteSource take the artifact as analyzed
IsAnalyzed(done, artifact) == artifact \in done

\* The callbacks of Dependencies, applied to what the finder reports
RECURSIVE ReportDeps(_, _, _, _)
ReportDeps(b, baseAddr, deps, i) ==
    IF i > Len(deps) THEN b
    ELSE LET d == deps[i]
             joined == joinSubPath(baseAddr.subPath, d.rel)
             next ==
                 CASE d.kind = "remote" ->
                          [b EXCEPT !.pendingRemote = Append(@,
                               RemoteArtifact(d.remote, d.depFinder))]
                   [] d.kind = "registry" ->
                          [b EXCEPT !.pendingRegistry = Append(@,
                               RegistryArtifact(d.registry, d.versions,
                                                d.depFinder))]
                   [] d.kind = "local" /\ joined.err # "" ->
                          [b EXCEPT !.diags = Append(@,
                               Diag("error", "Invalid relative source address"))]
                   [] OTHER ->
                          [b EXCEPT !.pendingRemote = Append(@,
                               RemoteArtifact(
                                   RemoteSrc(baseAddr.pkg, joined.subPath),
                                   d.depFinder))]
         IN ReportDeps(next, baseAddr, deps, i + 1)

\* One iteration of resolvePending's loop over pendingRegistry
ResolveRegistryItem(b, vOutcome, sOutcome) ==
    LET next == b.pendingRegistry[Len(b.pendingRegistry)]
        popped == [b EXCEPT !.pendingRegistry = Front(@)]
        r == findRegistryPackageSource(popped, next.sourceAddr, next.versions,
                                       vOutcome, sOutcome)
    IN IF r.err # ""
       THEN [b |-> [r.b EXCEPT !.diags = Append(@,
                        Diag("error", "Cannot resolve module registry package"))],
             askedSource |-> r.askedSource]
       ELSE [b |-> [r.b EXCEPT !.pendingRemote = Append(@,
                        RemoteArtifact(r.addr, next.depFinder))],
             askedSource |-> r.askedSource]

\* trace.Diagnostics, called with the diagnostics a dependency finder
\* returned when there are any
TraceDiagnostics(subject, moreDiags) ==
    IF Len(moreDiags) # 0 THEN <<Event("Diagnostics", subject, moreDiags)>>
    ELSE <<>>

\* One iteration of resolvePending's loop over pendingRemote
ResolveRemoteItem(b, outcome) ==
    LET next == b.pendingRemote[Len(b.pendingRemote)]
        popped == [b EXCEPT !.pendingRemote = Front(@)]
        pkgAddr == next.sourceAddr.pkg
        subject == RemotePackageString(pkgAddr)
        r == ensureRemotePackage(popped, pkgAddr, outcome)
        installed == [r.b EXCEPT !.calls = Append(@,
                         Call("ArtifactInstalled", subject,
                              next.sourceAddr.subPath, <<next.depFinder>>, ""))]
        found == FindDependencies(next.depFinder, next.sourceAddr)
        reported == ReportDeps(
            [installed EXCEPT !.calls = Append(@,
                 Call("FindDependencies", subject, next.sourceAddr.subPath,
                      <<next.depFinder>>, "ok"))],
            next.sourceAddr, found.deps, 1)
    IN IF r.err # ""
       THEN [r.b EXCEPT !.diags = Append(@,
                 Diag("error", "Cannot install source package"))]
       ELSE IF IsAnalyzed(installed.analyzed, next) THEN installed
       ELSE [reported EXCEPT !.analyzed = @ \cup {next},
                             !.calls = @ \o TraceDiagnostics(subject, found.diags),
                             !.diags = @ \o found.diags]

\* The characters of address strings in byte order, for Go's string "<"
Alphabet ==
    <<"-", ".", "/", "0", "1", "2", "3", ":", "=", "?", "a", "b", "example",
      "git", "h1", "https", "io", "m", "main", "n", "p", "r", "ref",
      "registry", "t", "terraform", "tgz", "x", "y">>

Rank(c) == CHOOSE i \in 1..Len(Alphabet) : Alphabet[i] = c

RECURSIVE StringLess(_, _)
StringLess(a, b) ==
    IF Len(b) = 0 THEN FALSE
    ELSE IF Len(a) = 0 THEN TRUE
    ELSE IF a[1] = b[1] THEN StringLess(Tail(a), Tail(b))
    ELSE Rank(a[1]) < Rank(b[1])

\* sort.Slice of manifest packages by SourceAddr
RECURSIVE SortPackages(_)
SortPackages(entries) ==
    IF entries = {} THEN <<>>
    ELSE LET least == CHOOSE e \in entries :
                          \A o \in entries \ {e} :
                              ~StringLess(o.SourceAddr, e.SourceAddr)
         IN <<least>> \o SortPackages(entries \ {least})

\* The packages section writeManifest builds
ManifestPackages(b) ==
    SortPackages({ [SourceAddr |-> RemotePackageString(p),
                    LocalDir |-> b.remotePackageDirs[p],
                    GitCommitID |-> IF Has(b.remotePackageMeta, p)
                                    THEN b.remotePackageMeta[p] ELSE ""]
                   : p \in DOMAIN b.remotePackageDirs })

\* The registry packages writeManifest finds in resolvedRegistry
ResolvedPackages(b) == { rpv.pkg : rpv \in DOMAIN b.resolvedRegistry }

\* The registry section writeManifest builds, its objects in the order the
\* map iteration met their packages
ManifestRegistryMeta(b, order) ==
    [i \in 1..Len(order) |->
        [SourceAddr |-> ModulePackageString(order[i]),
         Versions |->
            [vs \in { VersionString(rpv.version) :
                        rpv \in { r \in DOMAIN b.resolvedRegistry :
                                    r.pkg = order[i] } } |->
                RemoteSourceString(
                    b.resolvedRegistry[[pkg |-> order[i],
                                        version |-> ParseVersion(vs).version]])]]]

\* The orders a map iteration can meet a set of keys in
Orders(S) ==
    { o \in [1..Cardinality(S) -> S] :
        \A i, j \in 1..Cardinality(S) : o[i] = o[j] => i = j }

\* sort.Slice(root.RegistryMeta, less) with a less that indexes
\* root.Packages: for two or more registry objects, less is called with the
\* last index of RegistryMeta, out of range when Packages is shorter
RegistrySortPanics(packages, registryMeta) ==
    Len(registryMeta) >= 2 /\ Len(packages) < Len(registryMeta)

\* writeManifest
writeManifest(b, order) ==
    LET packages == ManifestPackages(b)
        registryMeta == ManifestRegistryMeta(b, order)
    IN IF RegistrySortPanics(packages, registryMeta)
       THEN [panic |-> TRUE, manifest |-> NoManifest]
       ELSE [panic |-> FALSE,
             manifest |-> [written |-> TRUE, FormatVersion |-> 1,
                           Packages |-> packages,
                           RegistryMeta |-> registryMeta]]

-----------------------------------------------------------------------------
(* sourcebundle.Bundle *)

Range(seq) == { seq[i] : i \in 1..Len(seq) }

\* OpenDir's check of a package directory name
ValidLocalDir(localDir) ==
    ValidPath(localDir) /\ localDir # Dot /\ Index(localDir, <<Sep>>) = 0

\* What OpenDir's parsers return for each address and version string of the
\* manifest
ParsedManifest(m) ==
    [pkgs |-> [i \in 1..Len(m.Packages) |->
                  ParseRemotePackage(m.Packages[i].SourceAddr)],
     regs |-> [i \in 1..Len(m.RegistryMeta) |->
                  ParseRegistryPackage(m.RegistryMeta[i].SourceAddr)],
     vers |-> [i \in 1..Len(m.RegistryMeta) |->
                  [vs \in DOMAIN m.RegistryMeta[i].Versions |->
                      [v |-> ParseVersion(vs),
                       src |-> ParseRemoteSource(
                                   m.RegistryMeta[i].Versions[vs])]]]]

\* The last index in 1..n that satisfies Test
LastIndex(n, Test(_)) ==
    CHOOSE i \in 1..n : Test(i) /\ \A j \in (i + 1)..n : ~Test(j)

\* OpenDir's two loops over the manifest, a later entry replacing an earlier
\* one for the same key
OpenParsed(baseDir, m, pm) ==
    LET nPkgs == Len(m.Packages)
        nRegs == Len(m.RegistryMeta)
        Mentions(i, rp, v) ==
            /\ pm.regs[i].pkg = rp
            /\ \E vs \in DOMAIN pm.vers[i] : pm.vers[i][vs].v.version = v
        SourceIn(i, v) ==
            pm.vers[i][CHOOSE vs \in DOMAIN pm.vers[i] :
                           pm.vers[i][vs].v.version = v].src.addr
    IN IF ~m.written THEN [err |-> "cannot read manifest", bundle |-> NoBundle]
       ELSE IF m.FormatVersion # 1
       THEN [err |-> "unsupported format version", bundle |-> NoBundle]
       ELSE IF \E i \in 1..nPkgs : ~ValidLocalDir(m.Packages[i].LocalDir)
       THEN [err |-> "invalid package directory name", bundle |-> NoBundle]
       ELSE IF \E i \in 1..nPkgs : pm.pkgs[i].err # ""
       THEN [err |-> "invalid remote package address", bundle |-> NoBundle]
       ELSE IF \E i \in 1..nRegs : pm.regs[i].err # ""
       THEN [err |-> "invalid registry package address", bundle |-> NoBundle]
       ELSE IF \E i \in 1..nRegs : \E vs \in DOMAIN pm.vers[i] :
                   pm.vers[i][vs].v.err # ""
       THEN [err |-> "invalid registry package version", bundle |-> NoBundle]
       ELSE IF \E i \in 1..nRegs : \E vs \in DOMAIN pm.vers[i] :
                   pm.vers[i][vs].src.err # ""
       THEN [err |-> "invalid registry package source address",
             bundle |-> NoBundle]
       ELSE [err |-> "",
             bundle |->
               [open |-> TRUE, rootDir |-> baseDir,
                remotePackageDirs |->
                    [p \in { pm.pkgs[i].pkg : i \in 1..nPkgs } |->
                        m.Packages[LastIndex(nPkgs,
                            LAMBDA i : pm.pkgs[i].pkg = p)].LocalDir],
                remotePackageMeta |->
                    [p \in { pm.pkgs[i].pkg :
                               i \in { j \in 1..nPkgs :
                                         m.Packages[j].GitCommitID # "" } } |->
                        m.Packages[LastIndex(nPkgs,
                            LAMBDA i : /\ pm.pkgs[i].pkg = p
                                       /\ m.Packages[i].GitCommitID # "")
                        ].GitCommitID],
                registryPackageSources |->
                    [rp \in { pm.regs[i].pkg : i \in 1..nRegs } |->
                        [v \in UNION { { pm.vers[i][vs].v.version :
                                            vs \in DOMAIN pm.vers[i] } :
                                          i \in { j \in 1..nRegs :
                                                    pm.regs[j].pkg = rp } } |->
                            SourceIn(LastIndex(nRegs,
                                         LAMBDA i : Mentions(i, rp, v)), v)]]]]

\* OpenDir, of the manifest found in the directory
OpenDir(baseDir, m) == OpenParsed(baseDir, m, ParsedManifest(m))

\* Bundle.LocalPathForRemoteSource
LocalPathForRemoteSource(bn, addr) ==
    IF ~Has(bn.remotePackageDirs, addr.pkg)
    THEN [err |-> "source bundle does not include package", path |-> <<>>]
    ELSE [err |-> "",
          path |-> Join(Join(bn.rootDir, bn.remotePackageDirs[addr.pkg]),
                        addr.subPath)]

\* Bundle.LocalPathForRegistrySource
LocalPathForRegistrySource(bn, addr, version) ==
    IF ~Has(bn.registryPackageSources, addr.pkg)
    THEN [err |-> "source bundle does not include package", path |-> <<>>]
    ELSE IF ~Has(bn.registryPackageSources[addr.pkg], version)
    THEN [err |-> "source bundle does not include version", path |-> <<>>]
    ELSE LocalPathForRemoteSource(bn,
             FinalSourceAddr(addr, bn.registryPackageSources[addr.pkg][version]))

-----------------------------------------------------------------------------
(* The builder's callers *)

\* The number of Add* calls a caller makes
MaxAdds == 2

\* The sources callers add
AddedRemoteSources ==
    { RemoteSrc(p, sub) : p \in RemotePackages, sub \in { <<>>, SubM } }

AddedRegistrySources ==
    { RegistrySrc(RegX, <<>>), RegistrySrc(RegX, SubM), RegistrySrc(RegY, <<>>) }

\* Where resolvePending goes on: its outer loop runs while either queue has
\* items, and each inner loop runs until its own queue is empty
AfterRegistry(b) ==
    IF b.pendingRegistry # <<>> THEN "registry"
    ELSE IF b.pendingRemote # <<>> THEN "remote" ELSE "return"

\* A remote loop that handles one item and leaves the rest
AfterRemote_OneItem(b) ==
    IF b.pendingRegistry # <<>> THEN "registry" ELSE "return"

AfterRemote(b) ==
    IF b.pendingRemote # <<>> THEN "remote"
    ELSE IF b.pendingRegistry # <<>> THEN "registry" ELSE "return"

Result(op, result) == [op |-> op, result |-> result]

BuilderInit ==
    /\ targetDir = TargetDir
    /\ pendingRemote = <<>>
    /\ pendingRegistry = <<>>
    /\ analyzed = {}
    /\ remotePackageDirs = <<>>
    /\ remotePackageMeta = <<>>
    /\ resolvedRegistry = <<>>
    /\ registryPackageVersions = <<>>
    /\ disk = <<>>
    /\ manifest = NoManifest
    /\ bundle = NoBundle
    /\ pc = "idle"
    /\ diags = <<>>
    /\ calls = <<>>
    /\ lastResult = Result("NewBuilder", "ok")
    /\ addCount = 0
    /\ errorsReturned = FALSE
    /\ registryAdded = {}
    /\ NoUnpack
    /\ NoTools

\* A call on a closed or poisoned builder panics before it does anything
Panics(op) ==
    /\ lastResult' = Result(op, "panic")
    /\ UNCHANGED <<targetDir, pendingRemote, pendingRegistry, analyzed,
                   remotePackageDirs, remotePackageMeta, resolvedRegistry,
                   registryPackageVersions, disk, manifest, bundle, pc, diags,
                   calls, errorsReturned, registryAdded>>

\* Builder.AddRemoteSource, up to its call of resolvePending
AddRemoteSource ==
    \E addr \in AddedRemoteSources, depFinder \in Finders :
        LET af == RemoteArtifact(addr, depFinder)
            b == [ThisBuilder EXCEPT !.pendingRemote = Append(@, af)]
        IN /\ pc = "idle"
           /\ addCount < MaxAdds
           /\ addCount' = addCount + 1
           /\ UNCHANGED <<unpackVars, toolVars>>
           /\ IF targetDir = <<>> THEN Panics("AddRemoteSource")
              ELSE IF IsAnalyzed(analyzed, af)
              THEN /\ lastResult' = Result("AddRemoteSource", "ok")
                   /\ BecomesBuilder(ThisBuilder)
                   /\ UNCHANGED <<manifest, bundle, pc, errorsReturned>>
              ELSE /\ BecomesBuilder(b)
                   /\ pc' = AfterRegistry(b)
                   /\ lastResult' = Result("AddRemoteSource", "running")
                   /\ UNCHANGED <<manifest, bundle, errorsReturned>>

\* The body of Builder.AddRegistrySource, up to its call of resolvePending
AppendRegistry(op, addr, allowedVersions, depFinder) ==
    LET b == [ThisBuilder EXCEPT !.pendingRegistry = Append(@,
                  RegistryArtifact(addr, allowedVersions, depFinder))]
    IN IF targetDir = <<>> THEN Panics(op)
       ELSE /\ BecomesBuilder(b)
            /\ pc' = AfterRegistry(b)
            /\ lastResult' = Result(op, "running")
            /\ UNCHANGED <<manifest, bundle, errorsReturned>>

\* Builder.AddRegistrySource
AddRegistrySource ==
    \E addr \in AddedRegistrySources, allowedVersions \in VersionSets,
       depFinder \in Finders :
        /\ pc = "idle"
        /\ addCount < MaxAdds
        /\ addCount' = addCount + 1
        /\ UNCHANGED <<unpackVars, toolVars>>
        /\ AppendRegistry("AddRegistrySource", addr, allowedVersions, depFinder)

\* Builder.AddFinalRegistrySource: AddRegistrySource with
\* versions.Only(addr.SelectedVersion())
AddFinalRegistrySource ==
    \E addr \in AddedRegistrySources, version \in {1, 2},
       depFinder \in Finders :
        /\ pc = "idle"
        /\ addCount < MaxAdds
        /\ addCount' = addCount + 1
        /\ UNCHANGED <<unpackVars, toolVars>>
        /\ AppendRegistry("AddFinalRegistrySource", addr, {version}, depFinder)

\* resolvePending: one item of pendingRegistry
ResolveRegistry ==
    /\ pc = "registry"
    /\ \E vOutcome \in {"ok", "error"}, sOutcome \in {"ok", "error"} :
         \E next \in {pendingRegistry[Len(pendingRegistry)]} :
         \E r \in {ResolveRegistryItem(ThisBuilder, vOutcome, sOutcome)} :
            /\ vOutcome \in VersionsOutcomes(next.sourceAddr.pkg)
            /\ IF r.askedSource = Unspecified THEN sOutcome = "ok"
               ELSE sOutcome \in SourceAddrOutcomes(next.sourceAddr.pkg,
                                                    r.askedSource)
            /\ BecomesBuilder(r.b)
            /\ pc' = AfterRegistry(r.b)
    /\ UNCHANGED <<manifest, bundle, lastResult, addCount, errorsReturned>>
    /\ UNCHANGED <<unpackVars, toolVars>>

\* resolvePending: one item of pendingRemote
ResolveRemote ==
    /\ pc = "remote"
    /\ \E outcome \in InstallOutcomes(
                          pendingRemote[Len(pendingRemote)].sourceAddr.pkg) :
         \E b \in {ResolveRemoteItem(ThisBuilder, outcome)} :
            /\ BecomesBuilder(b)
            /\ pc' = AfterRemote(b)
    /\ UNCHANGED <<manifest, bundle, lastResult, addCount, errorsReturned>>
    /\ UNCHANGED <<unpackVars, toolVars>>

\* A deferred function that leaves targetDir alone
DeferredTargetDir_Kept(b) == b.targetDir

\* What resolvePending's deferred function leaves in targetDir
DeferredTargetDir(b) == IF HasErrors(b.diags) THEN <<>> ELSE b.targetDir

\* resolvePending returns, and with it the Add* call
ResolveReturn ==
    /\ pc = "return"
    /\ BecomesBuilder([ThisBuilder EXCEPT
                          !.targetDir = DeferredTargetDir(ThisBuilder),
                          !.diags = <<>>])
    /\ pc' = "idle"
    /\ lastResult' = Result(lastResult.op,
                            IF HasErrors(diags) THEN "errors" ELSE "ok")
    /\ errorsReturned' = (errorsReturned \/ HasErrors(diags))
    /\ UNCHANGED <<manifest, bundle, addCount>>
    /\ UNCHANGED <<unpackVars, toolVars>>

\* Builder.Close
Close ==
    /\ pc = "idle"
    /\ lastResult.op # "Close"
    /\ UNCHANGED <<unpackVars, toolVars>>
    /\ UNCHANGED addCount
    /\ IF targetDir = <<>> THEN Panics("Close")
       ELSE \E order \in Orders(ResolvedPackages(ThisBuilder)) :
              LET w == writeManifest(ThisBuilder, order)
                  o == OpenDir(TargetDir, w.manifest)
              IN /\ BecomesBuilder([ThisBuilder EXCEPT !.targetDir = <<>>])
                 /\ manifest' = w.manifest
                 /\ bundle' = o.bundle
                 /\ lastResult' =
                        Result("Close", IF w.panic THEN "panic"
                                        ELSE IF o.err # "" THEN "errors"
                                        ELSE "ok")
                 /\ UNCHANGED <<pc, errorsReturned>>

BuilderNext ==
    \/ AddRemoteSource
    \/ AddRegistrySource
    \/ AddFinalRegistrySource
    \/ ResolveRegistry
    \/ ResolveRemote
    \/ ResolveReturn
    \/ Close

SpecBuilder == BuilderInit /\ [][BuilderNext]_vars

\* resolvePending is a loop in the goroutine of the Add* call: once entered,
\* its iterations and its return follow one another whenever the fetcher and
\* the registry client return. An iteration over pendingRegistry can be
\* taken exactly when pc = "registry", and one over pendingRemote exactly
\* when pc = "remote" (IterationsEnabled), so the weak fairness of the two
\* iterations, WF_vars(ResolveRegistry) and WF_vars(ResolveRemote), is
\* written with the enabling conditions put in place of ENABLED.
IterationsEnabled ==
    /\ pc = "registry" =>
          /\ pendingRegistry # <<>>
          /\ VersionsOutcomes(
                 pendingRegistry[Len(pendingRegistry)].sourceAddr.pkg) # {}
    /\ pc = "remote" =>
          /\ pendingRemote # <<>>
          /\ InstallOutcomes(
                 pendingRemote[Len(pendingRemote)].sourceAddr.pkg) # {}

SpecBuilderLive ==
    /\ SpecBuilder
    /\ ([]<>(pc # "registry") \/ []<><<ResolveRegistry>>_vars)
    /\ ([]<>(pc # "remote") \/ []<><<ResolveRemote>>_vars)
    /\ WF_vars(ResolveReturn)

-----------------------------------------------------------------------------
(* Claims about sourcebundle.Builder *)

AddOps == {"AddRemoteSource", "AddRegistrySource", "AddFinalRegistrySource"}

\* C4: once an Add* call has returned diagnostics with an error, every
\* later Add* call panics, no collaborator or tracer is called, and the
\* bundle directory does not change.
C4_PoisonedBuilderPanics ==
    [][errorsReturned =>
           /\ calls' = calls
           /\ disk' = disk
           /\ manifest' = manifest
           /\ (addCount' # addCount =>
                   lastResult'.op \in AddOps /\ lastResult'.result = "panic")]_vars

\* An Add* call has panicked on a builder poisoned by an earlier error
C4_Witness ==
    /\ errorsReturned
    /\ lastResult.op \in AddOps
    /\ lastResult.result = "panic"

CallsOf(ev) == { i \in 1..Len(calls) : calls[i].ev = ev }

SameArtifact(c, d) ==
    c.subject = d.subject /\ c.subPath = d.subPath /\ c.detail = d.detail

\* C5: FindDependencies is called at most once for each (remote source
\* address, finder) pair, and it is called for every pair whose package was
\* installed, whichever finders the address was analyzed with before.
C5_AnalyzedOncePerAddressAndFinder ==
    /\ \A i, j \in CallsOf("FindDependencies") :
           SameArtifact(calls[i], calls[j]) => i = j
    /\ \A i \in CallsOf("ArtifactInstalled") :
           \E j \in CallsOf("FindDependencies") :
               SameArtifact(calls[i], calls[j])

\* One pair came up twice and was analyzed once, and its address was
\* analyzed again with the other finder
C5_Witness ==
    \E i, j \in CallsOf("ArtifactInstalled") :
        /\ i < j
        /\ SameArtifact(calls[i], calls[j])
        /\ \E k, l \in CallsOf("FindDependencies") :
               /\ SameArtifact(calls[k], calls[i])
               /\ calls[l].subject = calls[k].subject
               /\ calls[l].subPath = calls[k].subPath
               /\ calls[l].detail # calls[k].detail

\* C6: after RemotePackageDownloadSuccess for a package, the fetcher is not
\* called for it again and no download of it starts, and every later
\* artifact in the package gets RemotePackageDownloadAlready.
C6_InstalledPackageReused ==
    \A i \in CallsOf("RemotePackageDownloadSuccess") :
        \A j \in (i + 1)..Len(calls) :
            /\ calls[j].subject = calls[i].subject =>
                   calls[j].ev \notin {"FetchSourcePackage",
                                       "RemotePackageDownloadStart"}
            /\ (/\ j > i + 1
                /\ calls[j].ev = "ArtifactInstalled"
                /\ calls[j].subject = calls[i].subject) =>
                   /\ calls[j - 1].ev = "RemotePackageDownloadAlready"
                   /\ calls[j - 1].subject = calls[i].subject

\* A later Add* call met an installed package under another sub-path
C6_Witness ==
    \E i \in CallsOf("RemotePackageDownloadSuccess") :
        \E j \in CallsOf("RemotePackageDownloadAlready") :
            /\ i < j
            /\ calls[j].subject = calls[i].subject
            /\ calls[j + 1].subPath # calls[i + 1].subPath
            /\ addCount = 2

CleanedTree(pkg) == PreparedTree(FetchedTree(pkg))

\* C7: two package addresses whose cleaned trees are equal are recorded with
\* the same directory name, one directory of the bundle holds that tree, and
\* after Close LocalPathForRemoteSource gives the same path for both.
C7_IdenticalPackagesCoalesced ==
    \A p, q \in DOMAIN remotePackageDirs :
        (p # q /\ CleanedTree(p) = CleanedTree(q)) =>
            /\ remotePackageDirs[p] = remotePackageDirs[q]
            /\ ~errorsReturned /\ ~HasErrors(diags) =>
                   Cardinality({ d \in DOMAIN disk :
                                   disk[d] = CleanedTree(p) }) = 1
            /\ bundle.open =>
                   \A sub \in { <<>>, SubM } :
                       /\ LocalPathForRemoteSource(bundle,
                              RemoteSrc(p, sub)).err = ""
                       /\ LocalPathForRemoteSource(bundle, RemoteSrc(p, sub))
                            = LocalPathForRemoteSource(bundle,
                                                       RemoteSrc(q, sub))

\* Close returned a bundle holding both git addresses
C7_Witness ==
    /\ bundle.open
    /\ {PkgA, PkgC} \subseteq DOMAIN bundle.remotePackageDirs
    /\ Cardinality(DOMAIN disk) = 1

\* The path of sub-path sub under sub-path base of the installed package
ExpectedPath(pkg, base, sub) ==
    Join(Join(Join(TargetDir, HashDir(CleanedTree(pkg))), base), sub)

\* C8: after a successful Close, LocalPathForRegistrySource of every
\* registry source and version resolved through the registry succeeds and
\* is the path LocalPathForRemoteSource gives for the address the registry
\* answered with, the source's sub-path under the answer's, inside a
\* package directory of the bundle.
C8_RegistryPathIsResolvedRemotePath ==
    bundle.open =>
        \A ra \in registryAdded :
            LET answer == ModulePackageSourceAddr(ra.addr.pkg, ra.version)
                got == LocalPathForRegistrySource(bundle, ra.addr, ra.version)
            IN /\ got.err = ""
               /\ got = LocalPathForRemoteSource(bundle,
                            RemoteSrc(answer.pkg,
                                      IF Join(answer.subPath, ra.addr.subPath)
                                           = <<>>
                                      THEN <<>>
                                      ELSE Join(answer.subPath,
                                                ra.addr.subPath)))
               /\ got.path = ExpectedPath(answer.pkg, answer.subPath,
                                          ra.addr.subPath)
               /\ HashDir(CleanedTree(answer.pkg)) \in DOMAIN disk

\* Close returned a bundle after a registry source with a sub-path was
\* resolved to an address with a sub-path
C8_Witness ==
    /\ bundle.open
    /\ \E ra \in registryAdded :
           /\ ra.addr.subPath # <<>>
           /\ ModulePackageSourceAddr(ra.addr.pkg, ra.version).subPath # <<>>

Requests ==
    {"FetchSourcePackage", "ModulePackageVersions", "ModulePackageSourceAddr"}

\* C9: once a fetcher request for a package, or a registry request for a
\* package or package version, has returned an error, the same request is
\* not issued again.
C9_NoRequestRepeatedAfterError ==
    \A i, j \in 1..Len(calls) :
        (/\ i < j
         /\ calls[i].ev \in Requests
         /\ calls[i].result = "error") =>
            ~(/\ calls[j].ev = calls[i].ev
              /\ calls[j].subject = calls[i].subject
              /\ calls[j].detail = calls[i].detail)

\* a section of the manifest is in ascending order of its address strings
SortedBySourceAddr(section) ==
    \A i \in 1..(Len(section) - 1) :
        StringLess(section[i].SourceAddr, section[i + 1].SourceAddr)

\* C19: in the manifest Close writes, the packages section is in ascending
\* order of remote package address string and the registry section is in
\* ascending order of registry package address string, so that the same
\* recorded mappings always give the same manifest.
C19_ManifestSortedByAddress ==
    manifest.written =>
        /\ SortedBySourceAddr(manifest.Packages)
        /\ SortedBySourceAddr(manifest.RegistryMeta)

\* The operations the tracer is told of, and the events of each
TracedOps ==
    {"RegistryPackageVersions", "RegistryPackageSource", "RemotePackageDownload"}

TracePhases == {"Start", "Success", "Failure", "Already"}

\* the names of the tracer's callbacks for the traced operations
TraceNames ==
    { [ev |-> o \o ph, op |-> o, phase |-> ph] : o \in TracedOps, ph \in TracePhases }

\* the phase of a history entry that is a tracer event of a traced operation
PhaseOf(c) ==
    IF \E n \in TraceNames : n.ev = c.ev
    THEN (CHOOSE n \in TraceNames : n.ev = c.ev).phase
    ELSE "none"

OpOf(c) == (CHOOSE n \in TraceNames : n.ev = c.ev).op

\* the tracer events of the traced operations, in the order they were made
TraceLog == SelectSeq(calls, LAMBDA c : PhaseOf(c) # "none")

\* two events of the same operation on the same package (and version)
SameOperation(c, d) ==
    OpOf(c) = OpOf(d) /\ c.subject = d.subject /\ c.detail = d.detail

\* every Start of the events t is directly followed by its Success or
\* Failure, and every Success or Failure directly follows its Start
Bracketed(t) ==
    /\ \A i \in DOMAIN t :
          PhaseOf(t[i]) = "Start" =>
             /\ i < Len(t)
             /\ PhaseOf(t[i + 1]) \in {"Success", "Failure"}
             /\ SameOperation(t[i], t[i + 1])
    /\ \A i \in DOMAIN t :
          PhaseOf(t[i]) \in {"Success", "Failure"} =>
             /\ i > 1
             /\ PhaseOf(t[i - 1]) = "Start"
             /\ SameOperation(t[i - 1], t[i])

\* C21: in the order the tracer events are made, every Start is directly
\* followed by a Success or Failure of the same operation and package, every
\* Success or Failure directly follows such a Start, and no Start is open
\* when an Add* call has returned.
C21_TraceEventsBracketed ==
    /\ Bracketed(TraceLog)
    /\ (pc = "idle" /\ Len(calls) > 0) => PhaseOf(calls[Len(calls)]) # "Start"

\* An Add* call returned errors after a version lookup and a source lookup
\* that succeeded and a download that failed.
C21_Witness ==
    /\ pc = "idle"
    /\ lastResult.result = "errors"
    /\ CallsOf("RegistryPackageVersionsSuccess") # {}
    /\ CallsOf("RegistryPackageSourceSuccess") # {}
    /\ CallsOf("RemotePackageDownloadFailure") # {}

\* the number of error diagnostics in ds
ErrorCount(ds) == Cardinality({ i \in DOMAIN ds : ds[i].severity = "error" })

\* the number of errors the tracer was told of in the history log, from its
\* entry i on: one for each Failure callback, and the error diagnostics of
\* each Diagnostics callback
RECURSIVE TracedErrors(_, _)
TracedErrors(log, i) ==
    IF i > Len(log) THEN 0
    ELSE (IF PhaseOf(log[i]) = "Failure" THEN 1
          ELSE IF log[i].ev = "Diagnostics" THEN ErrorCount(log[i].detail)
          ELSE 0) + TracedErrors(log, i + 1)

\* C23: the error diagnostics an Add* call is about to return are as many as
\* the errors its tracer was told of, by a Failure callback or by the
\* Diagnostics callback: each returned error is delivered exactly once.
C23_ReturnedErrorsAreTraced ==
    pc \in {"registry", "remote", "return"} =>
        ErrorCount(diags) = TracedErrors(calls, 1)

\* C27: whenever an Add* call returns, pendingRemote and pendingRegistry are
\* both empty, and resolvePending starts on the remote queue only when the
\* registry queue is empty.
C27_QueuesDrainedRegistryFirst ==
    [][/\ pc' = "idle" => (pendingRemote' = <<>> /\ pendingRegistry' = <<>>)
       /\ (pc # "remote" /\ pc' = "remote") => pendingRegistry' = <<>>]_vars

\* An Add* call returned without errors after a dependency finder reported
\* a registry artifact, which was looked up after the finder ran.
C27_Witness ==
    /\ pc = "idle"
    /\ lastResult.result = "ok"
    /\ \E i \in CallsOf("FindDependencies") :
          \E j \in CallsOf("RegistryPackageVersionsStart") : i < j

\* what is left for resolvePending to do: an item of pendingRegistry counts
\* twice, for the item of pendingRemote it can become
QueueWeight(registry, remote) == 2 * Len(registry) + Len(remote)

\* an iteration of resolvePending's loops either analyzes an artifact that
\* was not analyzed before or leaves less in the queues
Progresses ==
    \/ analyzed \subseteq analyzed' /\ analyzed' # analyzed
    \/ /\ analyzed' = analyzed
       /\ QueueWeight(pendingRegistry', pendingRemote')
             < QueueWeight(pendingRegistry, pendingRemote)

\* C28: an Add* call terminates, also when artifacts report each other, or
\* the registry address they came from, as dependencies: every iteration of
\* resolvePending makes progress in a measure that cannot decrease forever
\* over finitely many artifacts, and a call that has started returns.
C28_AddTerminates ==
    /\ []IterationsEnabled
    /\ [][(pc \in {"registry", "remote"}) => Progresses]_vars
    /\ (pc # "idle") ~> (pc = "idle")

\* An Add* call returned after two artifacts that report each other were
\* both analyzed, and after an artifact that reports the registry address it
\* was resolved from found that address resolved already.
C28_Witness ==
    /\ pc = "idle"
    /\ lastResult.result = "ok"
    /\ \E i, j \in CallsOf("FindDependencies") :
          /\ calls[i].subject = RemotePackageString(PkgA)
          /\ calls[j].subject = RemotePackageString(PkgB)
          /\ calls[i].detail = <<"f1">> /\ calls[j].detail = <<"f1">>
          /\ calls[i].subPath = <<>> /\ calls[j].subPath = <<>>
    /\ \E i \in CallsOf("FindDependencies") :
          /\ calls[i].subPath = <<"m", "/", "m">>
          /\ \E j \in CallsOf("RegistryPackageSourceAlready") : i < j

\* The package a history entry is about has its recorded directory in the
\* bundle directory
InstalledDirExists(subject) ==
    \E p \in DOMAIN remotePackageDirs :
        /\ RemotePackageString(p) = subject
        /\ Has(disk, remotePackageDirs[p])

\* C29: FindDependencies is called for an artifact only after the download
\* of its package ended in success, and the directory recorded for the
\* package is in the target directory; a package whose installation failed
\* is never analyzed.
C29_AnalyzedOnlyWhenInstalled ==
    \A i \in CallsOf("FindDependencies") :
        /\ \E j \in CallsOf("RemotePackageDownloadSuccess") :
              j < i /\ calls[j].subject = calls[i].subject
        /\ InstalledDirExists(calls[i].subject)

\* C33: when the installation of a remote package fails, at whatever step,
\* the builder's state after the failure has no entry for the package in
\* remotePackageDirs and none in remotePackageMeta.
C33_FailedInstallLeavesNoEntry ==
    [][\A i \in (Len(calls) + 1)..Len(calls') :
          calls'[i].ev = "RemotePackageDownloadFailure"
            => \A pkg \in RemotePackages :
                  RemotePackageString(pkg) = calls'[i].subject
                    => /\ ~Has(remotePackageDirs', pkg)
                       /\ ~Has(remotePackageMeta', pkg)]_vars


\* C35: once the registry client has returned the list of versions of a
\* package, the builder does not request it again: no later
\* RegistryPackageVersionsStart, request or result for the package, and a
\* RegistryPackageVersionsAlready event only for a package whose list was
\* returned before.
C35_VersionsRequestedOnce ==
    /\ \A i \in CallsOf("ModulePackageVersions") :
          calls[i].result = "ok"
            => \A j \in (i + 1)..Len(calls) :
                  calls[j].subject = calls[i].subject
                    => calls[j].ev \notin
                         {"RegistryPackageVersionsStart",
                          "ModulePackageVersions",
                          "RegistryPackageVersionsFailure"}
    /\ \A j \in CallsOf("RegistryPackageVersionsAlready") :
          \E i \in CallsOf("ModulePackageVersions") :
              /\ i < j
              /\ calls[i].result = "ok"
              /\ calls[i].subject = calls[j].subject
    /\ \A j \in CallsOf("RegistryPackageVersionsSuccess") :
          /\ j > 1
          /\ calls[j - 1].ev = "ModulePackageVersions"
          /\ calls[j - 1].subject = calls[j].subject

\* A package is resolved a second time, from the cached list
C35_Witness ==
    \E j \in CallsOf("RegistryPackageVersionsAlready") :
        \E i \in CallsOf("RegistryPackageVersionsSuccess") :
            i < j /\ calls[i].subject = calls[j].subject


\* The tracer events and client calls about the source address of a
\* registry package version
SourceLookups ==
    {"RegistryPackageSourceStart", "ModulePackageSourceAddr",
     "RegistryPackageSourceSuccess", "RegistryPackageSourceFailure",
     "RegistryPackageSourceAlready"}

\* C36: resolving a registry artifact whose list of versions is known
\* selects the greatest version that is both available and allowed, and
\* every source address lookup is for that version; when no available
\* version is allowed, an error diagnostic is added, no source address is
\* looked up and nothing is queued for download.
C36_NewestAllowedVersion ==
    [][pc = "registry"
         => LET next == pendingRegistry[Len(pendingRegistry)]
                available == ModulePackageVersions(next.sourceAddr.pkg)
                candidates == { available[i] : i \in 1..Len(available) }
                                  \cap next.versions
                new == (Len(calls) + 1)..Len(calls')
            IN (\A i \in new : calls'[i].ev # "RegistryPackageVersionsFailure")
                 => IF candidates = {}
                    THEN /\ HasErrors(diags')
                         /\ \A i \in new : calls'[i].ev \notin SourceLookups
                         /\ pendingRemote' = pendingRemote
                         /\ resolvedRegistry' = resolvedRegistry
                    ELSE /\ \E i \in new : calls'[i].ev \in SourceLookups
                         /\ \A i \in new :
                               calls'[i].ev \in SourceLookups
                                 => /\ ParseVersion(calls'[i].detail).version
                                          \in candidates
                                    /\ \A w \in candidates :
                                          w <= ParseVersion(calls'[i].detail).version]_vars

\* A package has been resolved to the newer of its two versions, both
\* allowed, and a later artifact of the package allows no available version
C36_Witness ==
    /\ pc = "return"
    /\ HasErrors(diags)
    /\ \E i \in CallsOf("RegistryPackageSourceSuccess") :
          /\ calls[i].detail = VersionString(2)
          /\ calls[Len(calls)].ev = "RegistryPackageVersionsAlready"
          /\ calls[Len(calls)].subject = calls[i].subject


\* C32: Close on a builder that is neither closed nor poisoned does not
\* panic, and the manifest it writes has an object for every registry
\* package recorded in resolvedRegistry, whatever has been recorded (more
\* registry packages than remote packages included).
C32_CloseWritesEveryRegistryPackage ==
    [][(targetDir # <<>> /\ lastResult.op # "Close"
          /\ lastResult'.op = "Close")
         => /\ lastResult'.result # "panic"
            /\ manifest'.written
            /\ \A pkg \in ResolvedPackages(ThisBuilder) :
                  \E i \in DOMAIN manifest'.RegistryMeta :
                      manifest'.RegistryMeta[i].SourceAddr
                          = ModulePackageString(pkg)]_vars

-----------------------------------------------------------------------------
(* The contexts of a traced operation *)

\* The three operations the BuildTracer brackets, each with the request it
\* makes between its Start and its Success or Failure
TracedRequest(op) ==
    CASE op = "RegistryPackageVersions" -> "ModulePackageVersions"
      [] op = "RegistryPackageSource" -> "ModulePackageSourceAddr"
      [] op = "RemotePackageDownload" -> "FetchSourcePackage"

\* context.Context values: the one the caller gave, one a Start callback
\* derived from it, and nil
CallerCtx == "ctx"
DerivedCtx == "ctx+span"
NilCtx == "nil"

\* What a tracer's Start callback does: the field is nil, or the function
\* returns nil, the context it was given, or a child of it
StartCallbacks == {"absent", "returns nil", "returns ctx", "returns child"}

\* The Start callback, called with ctx
StartReturns(startCb, ctx) ==
    CASE startCb = "returns nil" -> NilCtx
      [] startCb = "returns ctx" -> ctx
      [] startCb = "returns child" -> DerivedCtx

\* A request context that is whatever the callback left in reqCtx
RequestContext_NoFallback(startCb, ctx) ==
    IF startCb # "absent" THEN StartReturns(startCb, ctx) ELSE NilCtx

\* var reqCtx; if cb != nil { reqCtx = cb(ctx, ...) }; if reqCtx == nil
\* { reqCtx = ctx }
RequestContext(startCb, ctx) ==
    LET reqCtx == IF startCb # "absent" THEN StartReturns(startCb, ctx)
                  ELSE NilCtx
    IN IF reqCtx = NilCtx THEN ctx ELSE reqCtx

\* How a traced operation can go: what it needs is known already; or the
\* request is made and succeeds or fails; or, for a download, the temporary
\* directory cannot be made and no request follows Start
TraceOutcomes(op) ==
    {"already", "ok", "error"}
        \cup (IF op = "RemotePackageDownload" THEN {"tempdir"} ELSE {})

\* A call that was given a context, as the history records it
WithCtx(name, ctx) == [name |-> name, ctx |-> ctx]

\* One traced operation, entered with the caller's context and a tracer of
\* which the Start callback and the presence of the others vary
TraceInit ==
    /\ tracing \in { t \in [pc : {"lookup"}, op : TracedOps,
                            startCb : StartCallbacks, ends : BOOLEAN,
                            outcome : {"already", "ok", "error", "tempdir"},
                            reqCtx : {NilCtx}, log : {<<>>}] :
                       t.outcome \in TraceOutcomes(t.op) }
    /\ packer = Unused /\ matcher = Unused /\ escaping = Unused
    /\ copier = Unused /\ lookup = Unused
    /\ resolver = Unused /\ shared = Unused /\ sink = Unused /\ reader = Unused
    /\ NoUnpack
    /\ NoBuilder

\* The lookup that opens the operation, and then either the Already
\* callback with the caller's context or the Start callback
TraceLookup ==
    /\ tracing.pc = "lookup"
    /\ tracing' =
         IF tracing.outcome = "already"
         THEN [tracing EXCEPT
                 !.pc = "done",
                 !.log = IF tracing.ends
                         THEN Append(@, WithCtx(tracing.op \o "Already",
                                                CallerCtx))
                         ELSE @]
         ELSE [tracing EXCEPT
                 !.pc = IF tracing.outcome = "tempdir" THEN "end"
                        ELSE "request",
                 !.reqCtx = RequestContext(tracing.startCb, CallerCtx),
                 !.log = IF tracing.startCb # "absent"
                         THEN Append(@, WithCtx(tracing.op \o "Start",
                                                CallerCtx))
                         ELSE @]
    /\ UNCHANGED <<unpackVars, builderVars, packer, matcher, escaping, copier,
                   lookup, resolver, shared, sink, reader>>

\* The request to the registry client or to the fetcher
TraceRequest ==
    /\ tracing.pc = "request"
    /\ tracing' = [tracing EXCEPT
                     !.pc = "end",
                     !.log = Append(@, WithCtx(TracedRequest(tracing.op),
                                               tracing.reqCtx))]
    /\ UNCHANGED <<unpackVars, builderVars, packer, matcher, escaping, copier,
                   lookup, resolver, shared, sink, reader>>

\* The context given to the Success or Failure callback
EndContext_Caller(t) == CallerCtx

EndContext(t) == t.reqCtx

\* The Success or Failure callback, when the tracer has it
TraceEnd ==
    /\ tracing.pc = "end"
    /\ tracing' = [tracing EXCEPT
                     !.pc = "done",
                     !.log = IF tracing.ends
                             THEN Append(@, WithCtx(
                                      tracing.op \o
                                          (IF tracing.outcome = "ok"
                                           THEN "Success" ELSE "Failure"),
                                      EndContext(tracing)))
                             ELSE @]
    /\ UNCHANGED <<unpackVars, builderVars, packer, matcher, escaping, copier,
                   lookup, resolver, shared, sink, reader>>

TraceNext == TraceLookup \/ TraceRequest \/ TraceEnd

SpecTrace == TraceInit /\ [][TraceNext]_vars

\* The context the operation has to use after Start
StartedContext(t) ==
    IF t.startCb \in {"absent", "returns nil"} THEN CallerCtx
    ELSE StartReturns(t.startCb, CallerCtx)

\* C22: the context the Start callback returned is the context of the
\* request and of the paired Success or Failure callback; without a Start
\* callback, or when it returns nil, both get the caller's context.
C22_StartContextIsUsed ==
    \A i \in 1..Len(tracing.log) :
        tracing.log[i].name \in { TracedRequest(tracing.op),
                                  tracing.op \o "Success",
                                  tracing.op \o "Failure" }
            => tracing.log[i].ctx = StartedContext(tracing)

\* A download whose Start callback returned a child context failed in the
\* fetcher: the fetcher and the Failure callback were given the child.
C22_Witness ==
    /\ tracing.pc = "done"
    /\ tracing.op = "RemotePackageDownload"
    /\ tracing.startCb = "returns child"
    /\ tracing.outcome = "error"
    /\ tracing.log = << WithCtx("RemotePackageDownloadStart", CallerCtx),
                        WithCtx("FetchSourcePackage", DerivedCtx),
                        WithCtx("RemotePackageDownloadFailure", DerivedCtx) >>

-----------------------------------------------------------------------------
(* sourceaddrs: ParseSource and ResolveRelativeSource *)

\* A source address of any of the types: the Sources LocalSource,
\* RegistrySource, RemoteSource and ComponentSource, and the FinalSources
\* RegistrySourceFinal and ComponentSourceFinal. A field a type does not
\* have is empty.
Addr(kind, remotePkg, regPkg, subPath, relPath, version) ==
    [kind |-> kind, remotePkg |-> remotePkg, regPkg |-> regPkg,
     subPath |-> subPath, relPath |-> relPath, version |-> version]

NoAddr == Addr("none", NoRemoteSource.pkg, NoModulePackage, <<>>, <<>>, 0)

LocalAddr(relPath) ==
    Addr("local", NoRemoteSource.pkg, NoModulePackage, <<>>, relPath, 0)

RegistryAddr(pkg, subPath) ==
    Addr("registry", NoRemoteSource.pkg, pkg, subPath, <<>>, 0)

RemoteAddr(pkg, subPath) ==
    Addr("remote", pkg, NoModulePackage, subPath, <<>>, 0)

ComponentAddr(pkg, subPath) ==
    Addr("component", NoRemoteSource.pkg, pkg, subPath, <<>>, 0)

\* RegistrySource.Versioned
RegistryFinalAddr(pkg, subPath, version) ==
    Addr("registryFinal", NoRemoteSource.pkg, pkg, subPath, <<>>, version)

ComponentFinalAddr(pkg, subPath, version) ==
    Addr("componentFinal", NoRemoteSource.pkg, pkg, subPath, <<>>, version)

\* The types that implement Source, and those that implement FinalSource
SourceKinds == {"local", "registry", "remote", "component"}
FinalSourceKinds == {"local", "remote", "registryFinal", "componentFinal"}

\* looksLikeLocalSource
looksLikeLocalSource(given) ==
    HasPrefix(given, <<".", "/">>) \/ HasPrefix(given, <<".", ".", "/">>)

\* ParseLocalSource: "." and ".." get their slash, anything else that lost
\* its prefix gets "./"
CanonicalLocal(clean) ==
    IF clean = DotDot THEN <<".", ".", "/">>
    ELSE IF clean = Dot THEN <<".", "/">>
    ELSE IF ~looksLikeLocalSource(clean) THEN <<".", "/">> \o clean
    ELSE clean

\* ParseLocalSource
ParseLocalSource(given) ==
    IF \E i \in 1..Len(given) : given[i] \in {":", "\\"}
    THEN [err |-> "must be a relative path using forward-slash separators",
          addr |-> NoAddr]
    ELSE IF ~looksLikeLocalSource(given) /\ given # Dot /\ given # DotDot
    THEN [err |-> "must start with either ./ or ../", addr |-> NoAddr]
    ELSE IF CanonicalLocal(Clean(given)) # given
    THEN [err |-> "relative path must be written in canonical form",
          addr |-> NoAddr]
    ELSE [err |-> "", addr |-> LocalAddr(CanonicalLocal(Clean(given)))]

\* ParseRegistrySource: the package as regaddr.ParseModuleSource finds it
\* before the sub-path, and the sub-path normalized
ParseRegistrySourceSplit(sp, sub, parts) ==
    IF Len(parts) \notin {3, 4}
       \/ \E i \in 1..Len(parts) :
             parts[i] = <<>> \/ \E j \in 1..Len(parts[i]) :
                                   parts[i][j] \in {":", "?", "=", "@"}
    THEN [err |-> "invalid registry source address", addr |-> NoAddr]
    ELSE IF sub.err # ""
    THEN [err |-> "invalid sub-path", addr |-> NoAddr]
    ELSE [err |-> "",
          addr |-> RegistryAddr(ModulePackageOf(sub, <<>>, parts).pkg,
                                sub.subPath)]

ParseRegistrySource(given) ==
    ParseRegistrySourceSplit(splitSubPath(given),
                             normalizeSubpath(splitSubPath(given).subdir),
                             Split(splitSubPath(given).src))

\* looksLikeRegistrySource
looksLikeRegistrySource(given) ==
    ParseRegistrySourceSplit(splitSubPath(given),
                             [err |-> "", subPath |-> <<>>],
                             Split(splitSubPath(given).src)).err = ""

\* ParseRemoteSource, as an address of any type
RemoteResult(r) ==
    IF r.err # "" THEN [err |-> r.err, addr |-> NoAddr]
    ELSE [err |-> "", addr |-> RemoteAddr(r.addr.pkg, r.addr.subPath)]

\* ParseSource, for a string without leading or trailing spaces
ParseSource(given) ==
    IF Len(given) = 0
    THEN [err |-> "a valid source address is required", addr |-> NoAddr]
    ELSE IF looksLikeLocalSource(given) \/ given = Dot \/ given = DotDot
    THEN ParseLocalSource(given)
    ELSE IF looksLikeRegistrySource(given) THEN ParseRegistrySource(given)
    ELSE RemoteResult(ParseRemoteSource(given))

\* Source.String of LocalSource, RegistrySource and RemoteSource
SourceString(s) ==
    CASE s.kind = "local" -> s.relPath
      [] s.kind = "registry" ->
             IF s.subPath # <<>>
             THEN ModulePackageString(s.regPkg) \o <<"/", "/">> \o s.subPath
             ELSE ModulePackageString(s.regPkg)
      [] s.kind = "remote" -> RemoteSourceString(RemoteSrc(s.remotePkg, s.subPath))

\* What a resolution returns: an address, an error, or a panic
Resolution(addr, err, panic) == [addr |-> addr, err |-> err, panic |-> panic]

\* The LocalSource case: path.Join, and the prefix put back
ResolveLocal(new) ==
    Resolution(LocalAddr(IF ~looksLikeLocalSource(new)
                         THEN <<".", "/">> \o new ELSE new),
               "", FALSE)

\* The cases with a sub-path: joinSubPath, and the address made of the
\* base's package (and version) with the new sub-path
ResolveSubPath(a, joined) ==
    IF joined.err # ""
    THEN Resolution(NoAddr, "invalid traversal: " \o joined.err, FALSE)
    ELSE Resolution([a EXCEPT !.subPath = joined.subPath], "", FALSE)

\* ResolveRelativeSource and ResolveRelativeFinalSource: b verbatim when it
\* is absolute, else the type switch on a, with the types in cases and a
\* panic as its default
ResolveRelative(a, b, cases) ==
    IF b.kind # "local" THEN Resolution(b, "", FALSE)
    ELSE IF a.kind \notin cases
    THEN Resolution(NoAddr, "", TRUE)
    ELSE IF a.kind = "local" THEN ResolveLocal(Join(a.relPath, b.relPath))
    ELSE ResolveSubPath(a, joinSubPath(a.subPath, b.relPath))

\* ResolveRelativeSource
ResolveRelativeSource(a, b) ==
    ResolveRelative(a, b, {"local", "registry", "remote"})

\* ResolveRelativeFinalSource
ResolveRelativeFinalSource(a, b) ==
    ResolveRelative(a, b, {"local", "registryFinal", "remote"})

\* regaddr.ComponentPackage
CompX ==
    [Host |-> DefaultModuleRegistryHost, Namespace |-> <<"n">>,
     Name |-> <<"x">>, TargetSystem |-> <<>>]

\* The strings given to ParseSource for the relative address
RelStrings ==
    { <<".", "/">>, <<".", ".", "/">>, <<".", "/", "x">>,
      <<".", ".", "/", "x">>, <<".", ".", "/", ".", ".">>,
      <<".", ".", "/", ".", ".", "/", "x">>, <<".", "/", "m", "/", "x">>,
      <<".">>, <<".", ".">>, <<".", "/", ".">>, <<"x">>,
      RemoteSourceString(RemoteSrc(PkgB, SubM)),
      ModulePackageString(RegY) }

\* The strings given to ParseSource for the base address
BaseStrings ==
    { <<".", "/">>, <<".", ".", "/">>, <<".", "/", "m">>,
      <<".", ".", "/", "m">>, <<".", "/", "m", "/", "m">> }
    \cup { SourceString(RegistryAddr(RegX, sub))
             : sub \in {<<>>, SubM, <<"m", "/", "m">>} }
    \cup { SourceString(RemoteAddr(pkg, sub))
             : pkg \in {PkgA, PkgB}, sub \in {<<>>, SubM, <<"m", "/", "m">>} }

\* The addresses ParseSource returns for the strings it accepts
Parsed(strings) ==
    { ParseSource(s).addr : s \in { g \in strings : ParseSource(g).err = "" } }

\* The addresses of the types ParseSource does not return
OtherBases ==
    { ComponentAddr(CompX, sub) : sub \in {<<>>, SubM} }
    \cup { RegistryFinalAddr(RegX, sub, 1) : sub \in {<<>>, SubM} }
    \cup { ComponentFinalAddr(CompX, sub, 1) : sub \in {<<>>, SubM} }

\* Two addresses, one to be resolved against the other
ResolveInit ==
    /\ resolver \in { [pc |-> "call", a |-> a, b |-> b, fn |-> "",
                       result |-> Resolution(NoAddr, "", FALSE),
                       parsed |-> [err |-> "", addr |-> NoAddr]]
                      : a \in Parsed(BaseStrings) \cup OtherBases,
                        b \in Parsed(RelStrings) }
    /\ packer = Unused /\ matcher = Unused /\ escaping = Unused
    /\ copier = Unused /\ lookup = Unused /\ tracing = Unused
    /\ shared = Unused /\ sink = Unused /\ reader = Unused
    /\ NoUnpack
    /\ NoBuilder

\* ResolveRelativeSource(a, b), for a Source a
ResolveRelativeSourceCall ==
    /\ resolver.pc = "call"
    /\ resolver.a.kind \in SourceKinds
    /\ resolver' = [resolver EXCEPT
                      !.pc = "resolved",
                      !.fn = "ResolveRelativeSource",
                      !.result = ResolveRelativeSource(resolver.a, resolver.b)]
    /\ UNCHANGED <<unpackVars, builderVars, packer, matcher, escaping, copier,
                   lookup, tracing, shared, sink, reader>>

\* ResolveRelativeFinalSource(a, b), for a FinalSource a
ResolveRelativeFinalSourceCall ==
    /\ resolver.pc = "call"
    /\ resolver.a.kind \in FinalSourceKinds
    /\ resolver' = [resolver EXCEPT
                      !.pc = "resolved",
                      !.fn = "ResolveRelativeFinalSource",
                      !.result = ResolveRelativeFinalSource(resolver.a,
                                                            resolver.b)]
    /\ UNCHANGED <<unpackVars, builderVars, packer, matcher, escaping, copier,
                   lookup, tracing, shared, sink, reader>>

\* ParseSource of the string form of the Source that ResolveRelativeSource
\* returned
ParseSourceCall ==
    /\ resolver.pc = "resolved"
    /\ resolver.fn = "ResolveRelativeSource"
    /\ resolver.result.err = "" /\ ~resolver.result.panic
    /\ resolver' = [resolver EXCEPT
                      !.pc = "parsed",
                      !.parsed = ParseSource(SourceString(resolver.result.addr))]
    /\ UNCHANGED <<unpackVars, builderVars, packer, matcher, escaping, copier,
                   lookup, tracing, shared, sink, reader>>

ResolveNext ==
    \/ ResolveRelativeSourceCall
    \/ ResolveRelativeFinalSourceCall
    \/ ParseSourceCall

SpecResolve == ResolveInit /\ [][ResolveNext]_vars

\* The cleaned join of the base's sub-path and the relative path leaves the
\* package root
LeavesPackage(subPath, rel) ==
    HasPrefix(Join(subPath, rel) \o <<Sep>>, <<".", ".", "/">>)

\* C24: resolving a local address that does not escape against a base of
\* any type returns, without a panic and without an error, an address of
\* the base's type with the base's package and, for a final address, the
\* base's selected version.
C24_ResolvedTypeIsBaseType ==
    (/\ resolver.pc # "call"
     /\ resolver.b.kind = "local"
     /\ resolver.a.kind # "local"
            => ~LeavesPackage(resolver.a.subPath, resolver.b.relPath))
        => /\ ~resolver.result.panic
           /\ resolver.result.err = ""
           /\ resolver.result.addr.kind = resolver.a.kind
           /\ resolver.result.addr.remotePkg = resolver.a.remotePkg
           /\ resolver.result.addr.regPkg = resolver.a.regPkg
           /\ resolver.result.addr.version = resolver.a.version

\* path.Clean of the sub-path, a slash and the relative path; of the
\* relative path alone at the package root
CleanedJoin(subPath, rel) ==
    IF subPath = <<>> THEN Clean(rel) ELSE Clean(subPath \o <<Sep>> \o rel)

\* C25: for a registry or remote base with sub-path S and a local address
\* R, the resolution fails, saying that the path traverses up too many
\* levels, exactly when the cleaned join of S and R leaves the package
\* root; otherwise the result's sub-path is the cleaned join, and empty for
\* the package root.
C25_FailsIffLeavesPackage ==
    (/\ resolver.pc # "call"
     /\ resolver.a.kind \in {"registry", "remote"}
     /\ resolver.b.kind = "local")
        => IF HasPrefix(CleanedJoin(resolver.a.subPath, resolver.b.relPath)
                            \o <<Sep>>, <<".", ".", "/">>)
           THEN resolver.result.err =
                    "invalid traversal: traverses up too many levels"
           ELSE /\ resolver.result.err = ""
                /\ resolver.result.addr.subPath =
                       IF CleanedJoin(resolver.a.subPath,
                                      resolver.b.relPath) = Dot
                       THEN <<>>
                       ELSE CleanedJoin(resolver.a.subPath, resolver.b.relPath)

\* From the sub-path m of a remote package, "../../x" was refused.
C25_Witness ==
    /\ resolver.pc = "resolved"
    /\ resolver.a.kind = "remote"
    /\ resolver.a.subPath = SubM
    /\ resolver.b.relPath = <<".", ".", "/", ".", ".", "/", "x">>
    /\ resolver.result.err # ""

\* The string form of the address is accepted by ParseSource and parses
\* back to the address
RoundTrips(addr) ==
    /\ ParseSource(SourceString(addr)).err = ""
    /\ ParseSource(SourceString(addr)).addr = addr

\* The canonical form of a local address: cleaned, with "./" or "../" in
\* front, and "./" and "../" the only spellings of "." and ".."
CanonicalLocalPath(relPath) ==
    /\ looksLikeLocalSource(relPath)
    /\ \/ relPath \in { <<".", "/">>, <<".", ".", "/">> }
       \/ /\ Clean(relPath) \notin {Dot, DotDot}
          /\ relPath \in { Clean(relPath), <<".", "/">> \o Clean(relPath) }

\* C26: every address ParseSource or ResolveRelativeSource returns has a
\* string form that ParseSource accepts and parses back to an equal
\* address, and every LocalSource among them is in canonical form.
C26_ResultsRoundTrip ==
    /\ resolver.a.kind \in {"local", "registry", "remote"}
           => RoundTrips(resolver.a)
    /\ RoundTrips(resolver.b)
    /\ resolver.b.kind = "local" => CanonicalLocalPath(resolver.b.relPath)
    /\ (resolver.pc # "call" /\ resolver.fn = "ResolveRelativeSource"
            /\ ~resolver.result.panic /\ resolver.result.err = ""
            /\ resolver.result.addr.kind = "local")
           => CanonicalLocalPath(resolver.result.addr.relPath)
    /\ resolver.pc = "parsed"
           => /\ resolver.parsed.err = ""
              /\ resolver.parsed.addr = resolver.result.addr

-----------------------------------------------------------------------------
(* Two goroutines calling AddRemoteSource on one Builder, and a third     *)
(* calling Close                                                          *)

Goroutines == {1, 2}

\* The source each goroutine adds, and the one dependency that the finder
\* reports for the first of them
AddedBy(g) == IF g = 1 THEN "A" ELSE "B"

ReportedBy(artifact) == IF artifact = "A" THEN <<"D">> ELSE <<>>

SharedArtifacts == {"A", "B", "D"}

\* The call an artifact is in the queue for: the call that added it, or the
\* call that added the artifact whose finder reported it
CallOf(artifact) == IF artifact = "B" THEN 2 ELSE 1

\* ioutil.TempDir(dir, ".tmp-"): the parent of the directory it creates,
\* the system's temporary directory when dir is empty
TempDirParent(dir) == IF dir = "" THEN "os.TempDir" ELSE dir

\* A builder that two goroutines are about to call; failing is the set of
\* artifacts whose package cannot be installed; closer is the position of
\* the goroutine that calls Close, installs the installations started
\* (package, parent of the temporary directory, whether Close had already
\* emptied targetDir), manifest the packages the manifest was written with
SharedInit ==
    /\ shared \in { [mu |-> 0, targetDir |-> "/b", pendingRemote |-> <<>>,
                     analyzed |-> {}, failing |-> f,
                     remotePackageDirs |-> {}, installs |-> {},
                     closer |-> "call", manifest |-> {},
                     pc |-> [g \in Goroutines |-> "call"],
                     diags |-> [g \in Goroutines |-> {}],
                     returned |-> [g \in Goroutines |-> {}]]
                    : f \in SUBSET SharedArtifacts }
    /\ packer = Unused /\ matcher = Unused /\ escaping = Unused
    /\ copier = Unused /\ lookup = Unused /\ tracing = Unused
    /\ resolver = Unused /\ sink = Unused /\ reader = Unused
    /\ NoUnpack
    /\ NoBuilder

SharedUnchanged ==
    UNCHANGED <<unpackVars, builderVars, packer, matcher, escaping, copier,
                lookup, tracing, resolver, sink, reader>>

\* AddRemoteSource: the panic on a closed or poisoned builder; targetDir
\* is read before the lock is taken
AddRemoteSourceCheck(g) ==
    /\ shared.pc[g] = "call"
    /\ shared' = [shared EXCEPT
                    !.pc[g] = IF shared.targetDir = "" THEN "panicked"
                              ELSE "append"]
    /\ SharedUnchanged

\* AddRemoteSource between b.mu.Lock and b.mu.Unlock: the early return for
\* an analyzed artifact, and the append
AddRemoteSourceAppend(g) ==
    /\ shared.pc[g] = "append"
    /\ shared.mu = 0
    /\ shared' =
         IF AddedBy(g) \in shared.analyzed
         THEN [shared EXCEPT !.pc[g] = "returned"]
         ELSE [shared EXCEPT
                 !.pendingRemote = Append(@, AddedBy(g)),
                 !.pc[g] = "resolvePending"]
    /\ SharedUnchanged

\* resolvePending: b.mu.Lock()
ResolvePendingLock(g) ==
    /\ shared.pc[g] = "resolvePending"
    /\ shared.mu = 0
    /\ shared' = [shared EXCEPT !.mu = g, !.pc[g] = "loop"]
    /\ SharedUnchanged

\* ensureRemotePackage past its check of remotePackageDirs: the temporary
\* directory is made in whatever b.targetDir holds now, and the package is
\* fetched into it
InstallStarted(pkg) ==
    [pkg |-> pkg, parent |-> TempDirParent(shared.targetDir),
     closed |-> shared.closer \in {"writeManifest", "returned"}]

\* One iteration of the loop over pendingRemote: the error of a failed
\* installation goes to the diagnostics of the call that is running the
\* loop; an installed artifact is analyzed and what its finder reports is
\* appended
ResolvePendingIterate(g) ==
    /\ shared.pc[g] = "loop"
    /\ shared.pendingRemote # <<>>
    /\ \E next \in {shared.pendingRemote[Len(shared.pendingRemote)]} :
         shared' =
           IF next \in shared.failing
           THEN [shared EXCEPT
                   !.pendingRemote = Front(@),
                   !.installs = @ \cup {InstallStarted(next)},
                   !.diags[g] = @ \cup {next}]
           ELSE IF next \in shared.analyzed
           THEN [shared EXCEPT !.pendingRemote = Front(@)]
           ELSE [shared EXCEPT
                   !.pendingRemote = Front(@) \o ReportedBy(next),
                   !.installs = @ \cup {InstallStarted(next)},
                   !.remotePackageDirs = @ \cup {next},
                   !.analyzed = @ \cup {next}]
    /\ SharedUnchanged

\* resolvePending returns: the deferred function poisons the builder when
\* the diagnostics have errors, and the deferred b.mu.Unlock()
ResolvePendingReturn(g) ==
    /\ shared.pc[g] = "loop"
    /\ shared.pendingRemote = <<>>
    /\ shared' = [shared EXCEPT
                    !.mu = 0,
                    !.targetDir = IF shared.diags[g] # {} THEN "" ELSE @,
                    !.returned[g] = shared.diags[g],
                    !.pc[g] = "returned"]
    /\ SharedUnchanged

\* Close between b.mu.Lock and b.mu.Unlock: the panic on a closed or
\* poisoned builder, and targetDir emptied
CloseLocked ==
    /\ shared.closer = "call"
    /\ shared.mu = 0
    /\ shared' =
         IF shared.targetDir = ""
         THEN [shared EXCEPT !.closer = "panicked"]
         ELSE [shared EXCEPT !.targetDir = "", !.closer = "writeManifest"]
    /\ SharedUnchanged

\* Close after the Unlock: writeManifest ranges over remotePackageDirs
\* without the lock
CloseWriteManifest ==
    /\ shared.closer = "writeManifest"
    /\ shared' = [shared EXCEPT
                    !.manifest = shared.remotePackageDirs,
                    !.closer = "returned"]
    /\ SharedUnchanged

SharedNext ==
    \/ \E g \in Goroutines :
          \/ AddRemoteSourceCheck(g)
          \/ AddRemoteSourceAppend(g)
          \/ ResolvePendingLock(g)
          \/ ResolvePendingIterate(g)
          \/ ResolvePendingReturn(g)
    \/ CloseLocked
    \/ CloseWriteManifest

SpecShared == SharedInit /\ [][SharedNext]_vars

\* C30: when two goroutines call Add* on one builder, every error found
\* while processing an artifact that is in the queue for a call is returned
\* by that call; so a call that returns no errors had its own source
\* installed and analyzed, and no error of its artifacts has poisoned the
\* builder.
C30_ErrorsReturnedToTheirCall ==
    \A g \in Goroutines :
        shared.pc[g] = "returned"
            => /\ \A h \in Goroutines :
                    \A artifact \in shared.diags[h] :
                        CallOf(artifact) = g => artifact \in shared.returned[g]
               /\ shared.returned[g] = {} => AddedBy(g) \in shared.analyzed

\* The builder has been marked closed by Close
MarkedClosed == shared.closer \in {"writeManifest", "returned"}

\* C31: once Close has marked the builder closed, no Add* call starts the
\* installation of a package (which makes a temporary directory, in the
\* target directory or elsewhere, and fetches into it) and none changes
\* the mappings the manifest is written from: a racing call has finished
\* its work before, or panics.
C31_NoWorkAfterClose ==
    [][MarkedClosed
         => /\ shared.installs' = shared.installs
            /\ shared.remotePackageDirs' = shared.remotePackageDirs
            /\ shared.analyzed' = shared.analyzed]_vars

-----------------------------------------------------------------------------
(* Dependencies: the object a dependency finder reports to *)

MaxReports == 2

\* The Dependencies value resolvePending makes for one FindDependencies
\* call: the three callbacks are closures over the builder's queues and
\* over the diagnostics of the running resolvePending
NewDependencies(baseAddr) ==
    [baseAddr |-> baseAddr, remoteCb |-> "func", registryCb |-> "func",
     localResolveErrCb |-> "func"]

\* Dependencies.disable
disable(d) ==
    [d EXCEPT !.remoteCb = "nil", !.registryCb = "nil",
              !.localResolveErrCb = "nil"]

\* d.remoteCb(source, depFinder): the append to pendingRemote, or the panic
\* of calling a nil func value
CallRemoteCb(s, source) ==
    IF s.deps.remoteCb = "nil" THEN [s EXCEPT !.panicked = TRUE]
    ELSE [s EXCEPT !.pendingRemote = Append(@, source)]

\* d.registryCb(source, allowedVersions, depFinder)
CallRegistryCb(s, source) ==
    IF s.deps.registryCb = "nil" THEN [s EXCEPT !.panicked = TRUE]
    ELSE [s EXCEPT !.pendingRegistry = Append(@, source)]

\* d.localResolveErrCb(err)
CallLocalResolveErrCb(s, err) ==
    IF s.deps.localResolveErrCb = "nil" THEN [s EXCEPT !.panicked = TRUE]
    ELSE [s EXCEPT !.diags = Append(@, err)]

\* Dependencies.AddRemoteSource, AddRegistrySource and AddLocalSource
DependenciesAdd(s, method, source) ==
    CASE method = "AddRemoteSource" -> CallRemoteCb(s, source)
      [] method = "AddRegistrySource" -> CallRegistryCb(s, source)
      [] method = "AddLocalSource" ->
            LET r == ResolveRelativeSource(s.deps.baseAddr, source)
            IN IF r.err # "" THEN CallLocalResolveErrCb(s, r.err)
               ELSE CallRemoteCb(s, r.addr)

\* What the finder reports, and through which method
Reports ==
    { [method |-> "AddRemoteSource", source |-> RemoteAddr(PkgB, <<>>)],
      [method |-> "AddRegistrySource", source |-> RegistryAddr(RegX, <<>>)],
      [method |-> "AddLocalSource", source |-> LocalAddr(<<".", "/", "x">>)],
      [method |-> "AddLocalSource",
       source |-> LocalAddr(<<".", ".", "/", ".", ".">>)] }

\* resolvePending has made the Dependencies object and called
\* FindDependencies with a pointer to it
SinkInit ==
    /\ sink \in { [pc |-> "FindDependencies",
                   deps |-> NewDependencies(RemoteAddr(PkgA, sub)),
                   pendingRemote |-> <<>>, pendingRegistry |-> <<>>,
                   diags |-> <<>>, panicked |-> FALSE, reports |-> 0]
                  : sub \in {<<>>, SubM, <<"m", "/", "m">>} }
    /\ packer = Unused /\ matcher = Unused /\ escaping = Unused
    /\ copier = Unused /\ lookup = Unused /\ tracing = Unused
    /\ resolver = Unused /\ shared = Unused /\ reader = Unused
    /\ NoUnpack
    /\ NoBuilder

SinkUnchanged ==
    UNCHANGED <<unpackVars, builderVars, packer, matcher, escaping, copier,
                lookup, tracing, resolver, shared, reader>>

\* The finder reports a dependency while FindDependencies is running
FinderReports ==
    /\ sink.pc = "FindDependencies"
    /\ sink.reports < MaxReports
    /\ \E r \in Reports :
         sink' = [DependenciesAdd(sink, r.method, r.source)
                    EXCEPT !.reports = @ + 1]
    /\ SinkUnchanged

\* FindDependencies returns, and resolvePending calls deps.disable()
FinderReturns ==
    /\ sink.pc = "FindDependencies"
    /\ sink' = [sink EXCEPT !.pc = "returned", !.deps = disable(@),
                            !.reports = 0]
    /\ SinkUnchanged

\* A finder that kept the pointer calls a method after it has returned
FinderReportsLate ==
    /\ sink.pc = "returned"
    /\ ~sink.panicked
    /\ sink.reports < MaxReports
    /\ \E r \in Reports :
         sink' = [DependenciesAdd(sink, r.method, r.source)
                    EXCEPT !.reports = @ + 1]
    /\ SinkUnchanged

SinkNext ==
    \/ FinderReports
    \/ FinderReturns
    \/ FinderReportsLate

SpecSink == SinkInit /\ [][SinkNext]_vars

\* C34: once FindDependencies has returned, a call of AddRemoteSource,
\* AddRegistrySource or AddLocalSource on its Dependencies object does
\* nothing: the queues and the diagnostics stay as they are and the call
\* does not panic.
C34_DisabledSinkIsNoop ==
    [][sink.pc = "returned"
         => /\ sink'.pendingRemote = sink.pendingRemote
            /\ sink'.pendingRegistry = sink.pendingRegistry
            /\ sink'.diags = sink.diags
            /\ ~sink'.panicked]_vars

-----------------------------------------------------------------------------
(* escapingfs.TargetWithinRoot *)

\* filepath.Rel returns an error when only one of the two paths is absolute
RelFails(basepath, targpath) == IsAbs(Clean(basepath)) # IsAbs(Clean(targpath))

\* The TargetWithinRoot of internal/escapingfs/escaping.go: the target is
\* outside when the relative path starts with the two characters "..".
TargetWithinRootByPrefix(root, target) ==
    IF RelFails(root, target) THEN FALSE
    ELSE ~HasPrefix(Rel(root, target), DotDot)

\* The arguments of the calls: the root /r, and targets in it, beside it,
\* above it, and with names that begin with two dots.
EscapingRoots ==
    { <<>>, <<"/", "r">>, <<"/", "r", "/">>, <<"/", "r", "/", "s">> }

EscapingTargets ==
    { <<>>,
      <<"/", "r">>,
      <<"/", "r", "/", "s", "/", "f">>,
      <<"/", "r", "/", ".", ".", "f">>,
      <<"/", "r", "/", ".", ".", "d", "/", "f">>,
      <<"/", "r", "/", ".", ".", "/", "x">>,
      <<"/", "r", "/", "s", "/", ".", ".", "/", "f">>,
      <<"/", "r", "/", ".", "/", "f">>,
      <<"/", "r", "r", "/", "f">>,
      <<"/", "o", "/", "f">>,
      <<"/">> }

EscapingInit ==
    /\ escaping \in { [pc |-> "called", root |-> r, target |-> t,
                       result |-> FALSE, definedIn |-> "none"] :
                         r \in EscapingRoots, t \in EscapingTargets }
    /\ packer = Unused /\ matcher = Unused /\ copier = Unused /\ lookup = Unused
    /\ tracing = Unused /\ resolver = Unused /\ shared = Unused
    /\ sink = Unused /\ reader = Unused
    /\ NoUnpack
    /\ NoBuilder

\* The repository defines TargetWithinRoot twice in package escapingfs; a
\* call returns what one of the two definitions computes.
TargetWithinRootReturns ==
    /\ escaping.pc = "called"
    /\ escaping' = [escaping EXCEPT
                      !.pc = "returned",
                      !.result = TargetWithinRoot(escaping.root, escaping.target),
                      !.definedIn = "by components"]
    /\ UNCHANGED <<unpackVars, builderVars, packer, matcher, copier, lookup,
                   tracing, resolver, shared, sink, reader>>

TargetWithinRootByPrefixReturns ==
    /\ escaping.pc = "called"
    /\ escaping' = [escaping EXCEPT
                      !.pc = "returned",
                      !.result = TargetWithinRootByPrefix(escaping.root, escaping.target),
                      !.definedIn = "by prefix"]
    /\ UNCHANGED <<unpackVars, builderVars, packer, matcher, copier, lookup,
                   tracing, resolver, shared, sink, reader>>

EscapingNext == TargetWithinRootReturns \/ TargetWithinRootByPrefixReturns

SpecEscaping == EscapingInit /\ [][EscapingNext]_vars

\* no segment of the cleaned relative path from root to target is ".."
NoDotDotSegment(root, target) ==
    LET segments == Split(Clean(Rel(Clean(root), Clean(target))))
    IN \A i \in 1..Len(segments) : segments[i] # DotDot

\* C17: TargetWithinRoot returns true if and only if both arguments are
\* non-empty and no segment of the cleaned relative path from root to target
\* equals ".."; a name that only begins with two dots is within root, and
\* root is within root.
C17_WithinRootIffNoDotDotSegment ==
    escaping.pc = "returned" =>
        (escaping.result <=>
            /\ escaping.root # <<>>
            /\ escaping.target # <<>>
            /\ NoDotDotSegment(escaping.root, escaping.target))

\* What the definition by path components alone returns.
C17_ByComponentsOnly ==
    (escaping.pc = "returned" /\ escaping.definedIn = "by components") =>
        (escaping.result <=>
            /\ escaping.root # <<>>
            /\ escaping.target # <<>>
            /\ NoDotDotSegment(escaping.root, escaping.target))

-----------------------------------------------------------------------------
(* copyUtil.CopyWithLimit *)

\* chunkSize (4 MiB in the code) and maxChunks (100 in the code), scaled down
ChunkSize == 4
MaxChunks == 8

\* The longest source: one chunk more than chunkSize * maxChunks.
MaxSrcLen == ChunkSize * MaxChunks + ChunkSize

\* io.CopyN(dst, src, n) on a source with avail bytes left: copies
\* min(avail, n) bytes, and returns io.EOF when fewer than n were available
CopyN(avail, n) ==
    [n |-> IF avail < n THEN avail ELSE n,
     err |-> IF avail < n THEN "EOF" ELSE "none"]

CopyInit ==
    /\ copier \in { [pc |-> "loop", srcLen |-> len, src |-> len, dst |-> 0,
                     totalChunks |-> 0, err |-> "none"] : len \in 0..MaxSrcLen }
    /\ packer = Unused /\ matcher = Unused /\ escaping = Unused /\ lookup = Unused
    /\ tracing = Unused /\ resolver = Unused /\ shared = Unused
    /\ sink = Unused /\ reader = Unused
    /\ NoUnpack
    /\ NoBuilder

\* if totalChunks >= maxChunks: return "copy limit exceeded"
CopyLimitExceeded ==
    /\ copier.pc = "loop"
    /\ copier.totalChunks >= MaxChunks
    /\ copier' = [copier EXCEPT !.pc = "returned", !.err = "copy limit exceeded"]
    /\ UNCHANGED <<unpackVars, builderVars, packer, matcher, escaping, lookup,
                   tracing, resolver, shared, sink, reader>>

\* io.CopyN copied a whole chunk: totalChunks++ and the next iteration
CopyWholeChunk ==
    /\ copier.pc = "loop"
    /\ copier.totalChunks < MaxChunks
    /\ LET r == CopyN(copier.src, ChunkSize)
       IN /\ r.err = "none"
          /\ ~(r.n < ChunkSize)
          /\ copier' = [copier EXCEPT !.src = @ - r.n, !.dst = @ + r.n,
                                      !.totalChunks = @ + 1]
    /\ UNCHANGED <<unpackVars, builderVars, packer, matcher, escaping, lookup,
                   tracing, resolver, shared, sink, reader>>

\* io.CopyN reached the end of the source: break, return nil
CopyComplete ==
    /\ copier.pc = "loop"
    /\ copier.totalChunks < MaxChunks
    /\ LET r == CopyN(copier.src, ChunkSize)
       IN /\ r.err = "EOF"
          /\ copier' = [copier EXCEPT !.src = @ - r.n, !.dst = @ + r.n,
                                      !.pc = "returned"]
    /\ UNCHANGED <<unpackVars, builderVars, packer, matcher, escaping, lookup,
                   tracing, resolver, shared, sink, reader>>

CopyNext == CopyLimitExceeded \/ CopyWholeChunk \/ CopyComplete

SpecCopy == CopyInit /\ [][CopyNext]_vars

\* C18: CopyWithLimit copies the whole source and returns no error whenever
\* the source is at most chunkSize * maxChunks bytes long, a length of exactly
\* that cap and a length of zero included; it returns "copy limit exceeded"
\* only when the source is longer than the cap.
C18_CopiesUpToTheCap ==
    copier.pc = "returned" =>
        /\ (copier.srcLen <= ChunkSize * MaxChunks =>
               copier.err = "none" /\ copier.dst = copier.srcLen)
        /\ (copier.err = "copy limit exceeded" =>
               copier.srcLen > ChunkSize * MaxChunks)

\* The number of bytes of the bodies the archives have: "b2" is one byte
\* longer than chunkSize * maxChunks, the others are short
BodyLen(body) ==
    IF body = "b2" THEN ChunkSize * MaxChunks + 1
    ELSE IF body = "none" THEN 0
    ELSE 1

\* C39: Unpack writes the body of a regular-file entry through
\* CopyWithLimit: no file it writes is longer than chunkSize * maxChunks
\* bytes, and an entry with a longer body makes Unpack fail.
C39_UnpackCopiesWithLimit ==
    [][(unpackErr = "running" /\ pos <= Len(archive))
         => /\ \A q \in DOMAIN fs' :
                  (fs'[q].kind = "file" /\ (q \notin DOMAIN fs \/ fs[q] # fs'[q]))
                    => BodyLen(fs'[q].body) <= ChunkSize * MaxChunks
            /\ (archive[pos].Typeflag = "reg"
                  /\ BodyLen(archive[pos].Body) > ChunkSize * MaxChunks)
                 => unpackErr' \notin {"running", "ok"}]_vars

-----------------------------------------------------------------------------
(* matchIgnoreRule (.terraformignore) *)

\* rule.compile: the pattern as a regular expression, a sequence of
\* "star" for [^/]*, "all" for .*, "dirs" for (.*/)?, "one" for [^/], and
\* the other characters for themselves.  "**" takes a following "/" with it,
\* and is "all" at the end of the pattern.
RECURSIVE compile(_, _)
compile(pattern, i) ==
    IF i > Len(pattern) THEN <<>>
    ELSE IF pattern[i] = "*"
         THEN IF i + 1 <= Len(pattern) /\ pattern[i + 1] = "*"
              THEN IF i + 2 <= Len(pattern) /\ pattern[i + 2] = Sep
                   THEN IF i + 3 > Len(pattern) THEN <<"all">>
                        ELSE <<"dirs">> \o compile(pattern, i + 3)
                   ELSE IF i + 2 > Len(pattern) THEN <<"all">>
                        ELSE <<"dirs">> \o compile(pattern, i + 2)
              ELSE <<"star">> \o compile(pattern, i + 1)
    ELSE IF pattern[i] = "?" THEN <<"one">> \o compile(pattern, i + 1)
    ELSE <<pattern[i]>> \o compile(pattern, i + 1)

\* regexp.MatchString for the expression "^" regex "$": regex from its
\* element i on matches s from its character j on
RECURSIVE MatchFrom(_, _, _, _)
MatchFrom(regex, i, s, j) ==
    IF i > Len(regex) THEN j > Len(s)
    ELSE IF regex[i] = "star"
         THEN \E k \in j..(Len(s) + 1) :
                 /\ \A m \in j..(k - 1) : s[m] # Sep
                 /\ MatchFrom(regex, i + 1, s, k)
    ELSE IF regex[i] = "all"
         THEN \E k \in j..(Len(s) + 1) : MatchFrom(regex, i + 1, s, k)
    ELSE IF regex[i] = "dirs"
         THEN \/ MatchFrom(regex, i + 1, s, j)
              \/ \E k \in j..Len(s) : s[k] = Sep /\ MatchFrom(regex, i + 1, s, k + 1)
    ELSE IF regex[i] = "one"
         THEN j <= Len(s) /\ s[j] # Sep /\ MatchFrom(regex, i + 1, s, j + 1)
    ELSE j <= Len(s) /\ s[j] = regex[i] /\ MatchFrom(regex, i + 1, s, j + 1)

\* rule.match, for a rule whose value is val
MatchString(val, s) == MatchFrom(compile(val, 1), 1, s, 1)

\* The directory checks of one rule: some leading part of the directory,
\* followed by "/", matches; or, for a rule that (still) starts with "/",
\* the rule without it matches the directory.  rule.val[0] of an empty
\* value is an index out of range.
DirectoryChecks(val, dir) ==
    IF \E i \in 0..(Len(Split(dir)) - 1) :
           MatchString(val, JoinSep(SubSeq(Split(dir), 1, i)) \o <<Sep>>)
    THEN "match"
    ELSE IF Len(val) = 0 THEN "panic"
    ELSE IF val[1] = Sep /\ MatchString(Tail(val), dir) THEN "match"
    ELSE "no match"

\* What one rule says of the path whose directory part is dir and whose last
\* element is filename: the whole path, the file name alone, for a rule that
\* starts with "/" and a path without directory the file name against the
\* rule without the "/" (which the later checks then use), and the
\* directory checks.  rule.val[0:1] of an empty value is out of range.
ruleMatch(val, p, dir, filename) ==
    IF MatchString(val, p) \/ MatchString(val, filename) THEN "match"
    ELSE IF Len(val) = 0 THEN "panic"
    ELSE IF val[1] = Sep /\ dir = <<>>
         THEN IF MatchString(Tail(val), filename) THEN "match"
              ELSE DirectoryChecks(Tail(val), dir)
    ELSE DirectoryChecks(val, dir)

\* matched after a rule: a matching rule decides, whether it excludes or,
\* with "!", includes again
Matched_NeverIncludedAgain(matched, rule, match) ==
    matched \/ (match /\ ~rule.excluded)

Matched(matched, rule, match) ==
    IF match THEN ~rule.excluded ELSE matched

\* The rules of the calls; excluded is the rule's field of that name, true
\* for a pattern written with "!".
Rule(val, excluded) == [val |-> val, excluded |-> excluded]

IgnoreRules ==
    { Rule(<<"a", "/">>, FALSE),
      Rule(<<"*", "*", "/", "t", "/">>, FALSE),
      Rule(<<"*", "*", "/", "t", "/", "m", "/">>, TRUE),
      Rule(<<"*", ".", "x">>, FALSE),
      Rule(<<"f", ".", "x">>, TRUE),
      Rule(<<"/", "b">>, FALSE),
      Rule(<<"f", "?">>, TRUE),
      Rule(<<"/">>, FALSE) }

IgnorePaths ==
    { <<"f", ".", "x">>, <<"a", "/", "f", ".", "x">>, <<"a", "/">>,
      <<"t", "/", "m", "/", "f", ".", "x">>, <<"t", "/", "f", "y">>,
      <<"b">>, <<"c", "/", "b">>, <<"f", "y">> }

\* The longest list of rules.
MaxRules == 2

MatchInit ==
    /\ matcher \in { [pc |-> "loop", rules |-> rs, path |-> p, i |-> 1,
                      matched |-> FALSE, log |-> <<>>] :
                        rs \in SeqsUpTo(IgnoreRules, MaxRules), p \in IgnorePaths }
    /\ packer = Unused /\ escaping = Unused /\ copier = Unused /\ lookup = Unused
    /\ tracing = Unused /\ resolver = Unused /\ shared = Unused
    /\ sink = Unused /\ reader = Unused
    /\ NoUnpack
    /\ NoBuilder

\* One iteration of "for _, rule := range rules".
MatchRule ==
    /\ matcher.pc = "loop"
    /\ matcher.i <= Len(matcher.rules)
    /\ LET rule == matcher.rules[matcher.i]
           cut == LastSep(matcher.path, Len(matcher.path))
           match == ruleMatch(rule.val, matcher.path,
                              SubSeq(matcher.path, 1, cut),
                              SubSeq(matcher.path, cut + 1, Len(matcher.path)))
       IN IF match = "panic"
          THEN matcher' = [matcher EXCEPT !.pc = "panicked"]
          ELSE matcher' = [matcher EXCEPT
                             !.i = @ + 1,
                             !.matched = Matched(@, rule, match = "match"),
                             !.log = Append(@, match = "match")]
    /\ UNCHANGED <<unpackVars, builderVars, packer, escaping, copier, lookup,
                   tracing, resolver, shared, sink, reader>>

\* return matched
MatchReturn ==
    /\ matcher.pc = "loop"
    /\ matcher.i > Len(matcher.rules)
    /\ matcher' = [matcher EXCEPT !.pc = "returned"]
    /\ UNCHANGED <<unpackVars, builderVars, packer, escaping, copier, lookup,
                   tracing, resolver, shared, sink, reader>>

MatchNext == MatchRule \/ MatchReturn

SpecIgnore == MatchInit /\ [][MatchNext]_vars

\* the last rule that matched the path, 0 when none did
LastMatching(log) ==
    IF \E i \in DOMAIN log : log[i]
    THEN CHOOSE i \in DOMAIN log : log[i] /\ \A j \in (i + 1)..Len(log) : ~log[j]
    ELSE 0

-----------------------------------------------------------------------------
(* Bundle.SourceForLocalPath *)

\* len(s) of an address string: the number of its bytes
RECURSIVE StringLen(_)
StringLen(s) == IF Len(s) = 0 THEN 0 ELSE Len(Head(s)) + StringLen(Tail(s))

\* The loop over b.remotePackageDirs, in the order the map iteration takes:
\* a candidate for localDir replaces the one kept so far unless its address
\* string is longer.  kept is <<>> until a candidate is found.
RECURSIVE KeptCandidate(_, _, _, _, _)
KeptCandidate(dirs, order, i, localDir, kept) ==
    IF i > Len(order) THEN kept
    ELSE IF dirs[order[i]] # localDir
         THEN KeptCandidate(dirs, order, i + 1, localDir, kept)
    ELSE IF /\ kept # <<>>
            /\ StringLen(RemotePackageString(order[i]))
                   > StringLen(RemotePackageString(kept[1]))
         THEN KeptCandidate(dirs, order, i + 1, localDir, kept)
    ELSE KeptCandidate(dirs, order, i + 1, localDir, <<order[i]>>)

\* SourceForLocalPath, from the forward-slash path relative to the bundle's
\* root directory on
SourceForSubPath(bn, subPath, order) ==
    IF ~ValidPath(subPath) \/ subPath = Dot
    THEN [err |-> "path does not belong to the source bundle",
          addr |-> NoRemoteSource]
    ELSE LET kept == KeptCandidate(bn.remotePackageDirs, order, 1,
                                   Head(Split(subPath)), <<>>)
         IN IF kept = <<>>
            THEN [err |-> "path does not belong to the source bundle",
                  addr |-> NoRemoteSource]
            ELSE [err |-> "",
                  addr |-> RemoteSrc(kept[1],
                      normalizeSubpath(JoinSep(Tail(Split(subPath)))).subPath)]

\* Bundle.SourceForLocalPath, for an absolute path p
SourceForLocalPath(bn, p, order) ==
    SourceForSubPath(bn, Clean(Rel(bn.rootDir, Clean(p))), order)

\* A mirror of the repository of PkgC: the same files at another address,
\* whose string is as long as that of PkgC.
PkgD ==
    [sourceType |-> <<"git">>, url |-> HttpsURL(<<"b">>, <<"/", "r">>, <<>>)]

\* The directory the builder gives a package: the hash of its prepared tree
LocalDirOf(pkg) ==
    HashDir(PreparedTree(FetchedTree(IF pkg = PkgD THEN PkgC ELSE pkg)))

\* The bundles: any packages of PkgA..PkgD, each in the directory of its
\* content (PkgA, PkgC and PkgD share one).
LookupBundles ==
    { [open |-> TRUE, rootDir |-> TargetDir,
       remotePackageDirs |-> [p \in S |-> LocalDirOf(p)],
       remotePackageMeta |-> <<>>, registryPackageSources |-> <<>>] :
         S \in (SUBSET (RemotePackages \cup {PkgD})) \ {{}} }

\* The paths asked for: package directories and paths in them, the root of
\* the bundle, and paths that are in no package.
LookupPaths ==
    { Join(TargetDir, LocalDirOf(PkgA)),
      Join(Join(TargetDir, LocalDirOf(PkgA)), SubM),
      Join(TargetDir, LocalDirOf(PkgB)),
      TargetDir,
      Join(TargetDir, <<"x">>),
      <<"/", "t">> }

\* The number of calls made on one bundle
MaxLookups == 2

LookupInit ==
    /\ lookup \in { [bundle |-> bn, calls |-> {}] : bn \in LookupBundles }
    /\ packer = Unused /\ matcher = Unused /\ escaping = Unused /\ copier = Unused
    /\ tracing = Unused /\ resolver = Unused /\ shared = Unused
    /\ sink = Unused /\ reader = Unused
    /\ NoUnpack
    /\ NoBuilder

\* A call of SourceForLocalPath; the iteration over the map takes any order
SourceForLocalPathCall ==
    /\ Cardinality(lookup.calls) < MaxLookups
    /\ \E p \in LookupPaths :
         \E order \in Orders(DOMAIN lookup.bundle.remotePackageDirs) :
            lookup' = [lookup EXCEPT !.calls = @ \cup
                          { [p |-> p,
                             result |-> SourceForLocalPath(lookup.bundle, p, order)] }]
    /\ UNCHANGED <<unpackVars, builderVars, packer, matcher, escaping, copier,
                   tracing, resolver, shared, sink, reader>>

SpecLookup == LookupInit /\ [][SourceForLocalPathCall]_vars

\* the packages of the bundle whose directory is the first element of the
\* path below the root
Candidates(bn, p) ==
    { pkg \in DOMAIN bn.remotePackageDirs :
        HasPrefix(Clean(p) \o <<Sep>>,
                  Join(bn.rootDir, bn.remotePackageDirs[pkg]) \o <<Sep>>) }

\* C20: for the same bundle and the same path SourceForLocalPath returns the
\* same address on every call, whatever order the map iteration takes, and
\* when packages share the directory it is a candidate with the shortest
\* address string.
C20_SameAddressOnEveryCall ==
    /\ \A c, d \in lookup.calls : c.p = d.p => c.result = d.result
    /\ \A c \in lookup.calls :
          c.result.err = "" =>
              /\ c.result.addr.pkg \in Candidates(lookup.bundle, c.p)
              /\ \A o \in Candidates(lookup.bundle, c.p) :
                    StringLen(RemotePackageString(c.result.addr.pkg))
                        <= StringLen(RemotePackageString(o))

-----------------------------------------------------------------------------
(* Packer.Pack: the slug of a source directory, then unpacked elsewhere *)

\* the source directory handed to Pack
SrcDir == <<"/", "t", "/", "s">>

\* what is on disk outside the source directory: a sibling whose name starts
\* with the source's, an outside directory, and an allowed outside directory
OutsideFS ==
    (<< <<"t">>, <<"s">> >> :> DirNode(0))
    @@ (<< <<"t">>, <<"s", "2">> >> :> DirNode(0))
    @@ (<< <<"t">>, <<"s", "2">>, <<"y">> >> :> FileNode(Mode0644, "two"))
    @@ (<< <<"t">>, <<"b">> >> :> DirNode(0))
    @@ (<< <<"t">>, <<"b">>, <<"y">> >> :> FileNode(Mode0644, "two"))
    @@ (<< <<"o">> >> :> DirNode(0))
    @@ (<< <<"o">>, <<"p">> >> :> FileNode(Mode0644, "two"))

\* one entry of the source directory, at the names at below SrcDir
SrcNode(at, node) == [at |-> at, node |-> node]

\* the entries a source directory is made of
SrcNodes ==
    { SrcNode(<< <<"a">> >>, DirNode(1)),
      SrcNode(<< <<"a">>, <<"x">> >>, FileNode(Mode0644, "one")),
      SrcNode(<< <<"b">> >>, FileNode(Mode0755, "two")),
      SrcNode(<< <<"m">> >>, [FileNode(Mode0644, "none") EXCEPT !.kind = "fifo"]),
      \* a/m -> ../b, relative and inside
      SrcNode(<< <<"a">>, <<"m">> >>, LinkNode(<<".", ".", "/", "b">>)),
      \* n -> /t/s/a, absolute and inside
      SrcNode(<< <<"n">> >>, LinkNode(<<"/", "t", "/", "s", "/", "a">>)),
      \* p -> ../s2/y, outside, in a sibling that shares the prefix /t/s
      SrcNode(<< <<"p">> >>, LinkNode(<<".", ".", "/", "s", "2", "/", "y">>)),
      \* r -> /t/b, an outside directory by an absolute target
      SrcNode(<< <<"r">> >>, LinkNode(<<"/", "t", "/", "b">>)),
      \* t -> ../b, the same directory by a relative target
      SrcNode(<< <<"t">> >>, LinkNode(<<".", ".", "/", "b">>)),
      \* x -> ../b/y, an outside file
      SrcNode(<< <<"x">> >>, LinkNode(<<".", ".", "/", "b", "/", "y">>)),
      \* y -> /o/p, under the allowed target /o
      SrcNode(<< <<"y">> >>, LinkNode(<<"/", "o", "/", "p">>)),
      \* a/y -> ../../n, outside and dangling
      SrcNode(<< <<"a">>, <<"y">> >>, LinkNode(<<".", ".", "/", ".", ".", "/", "n">>)) }

MaxSrcNodes == 3

\* the sets of entries that form a tree: every entry's directory is there
SrcTrees ==
    { S \in SUBSET SrcNodes :
        /\ Cardinality(S) <= MaxSrcNodes
        /\ \A e \in S : Len(e.at) > 1 =>
              \E d \in S : d.at = Front(e.at) /\ d.node.kind = "dir" }

\* the file system holding the source tree S, the empty destination and
\* the outside
SourceFS(S) ==
    [q \in { << <<"t">>, <<"s">> >> \o e.at : e \in S } |->
        (CHOOSE e \in S : << <<"t">>, <<"s">> >> \o e.at = q).node]
    @@ OutsideFS @@ InitialFS

\* one pending call of the walk function: the path to visit, and the src
\* and dst the function was built with
Frame(path, src, dst) == [path |-> path, src |-> src, dst |-> dst]

\* NewPacker with its options, then Pack(src, w) about to start the walk
PackInit ==
    /\ \E S \in SrcTrees : fs = SourceFS(S)
    /\ archive = <<>>
    /\ pos = 0
    /\ unpackErr = "none"
    /\ allowSymlinkTargets \in AllowChoices
    /\ entryLog = <<>>
    /\ \E deref \in BOOLEAN :
          packer = [pc |-> "walk", dereference |-> deref,
                    walk |-> <<Frame(SrcDir, SrcDir, SrcDir)>>,
                    Files |-> <<>>, err |-> "none", links |-> <<>>]
    /\ matcher = Unused /\ escaping = Unused /\ copier = Unused /\ lookup = Unused
    /\ tracing = Unused /\ resolver = Unused /\ shared = Unused
    /\ sink = Unused /\ reader = Unused
    /\ NoBuilder

\* sort.Strings over the names of a directory
RECURSIVE SortNames(_)
SortNames(S) ==
    IF S = {} THEN <<>>
    ELSE LET least == CHOOSE e \in S : \A o \in S \ {e} : StringLess(e, o)
         IN <<least>> \o SortNames(S \ {least})

\* readDirNames of filepath.Walk: the names in dir, sorted
readDirNames(fsys, dir) ==
    SortNames({ q[Len(q)] : q \in { k \in DOMAIN fsys :
                                      Len(k) = Len(dir) + 1 /\ Front(k) = dir } })

\* strings.Replace(s, old, new, 1)
Replace(s, old, new) ==
    LET i == Index(s, old)
    IN IF i = 0 THEN s
       ELSE SubSeq(s, 1, i - 1) \o new \o SubSeq(s, i + Len(old), Len(s))

\* what resolveLink returns
Resolved(err, absTarget, target, info) ==
    [err |-> err, absTarget |-> absTarget, target |-> target, info |-> info]

\* resolveLink: the target of the link at path, followed through links to
\* the first thing that is not one
RECURSIVE resolveLink(_, _, _, _)
RECURSIVE resolveInfo(_, _, _, _, _, _)
resolveInfo(fsys, root, fuel, target, absTarget, info) ==
    IF info.st # "ok"
    THEN Resolved("failed to get file info from file", absTarget, target, DirNode(0))
    ELSE IF fsys[info.real].kind = "symlink"
    THEN IF fuel = 0
         THEN Resolved("stack overflow", absTarget, target, DirNode(0))
         ELSE resolveLink(fsys, root, absTarget, fuel - 1)
    ELSE Resolved("none", absTarget, target, fsys[info.real])

\* the absolute target: joined to the link's directory, then to the root
resolveAbs(root, path, target) ==
    IF IsAbs(target) THEN target
    ELSE IF IsAbs(Join(Dir(path), target)) THEN Join(Dir(path), target)
    ELSE Join(root, Join(Dir(path), target))

resolveTarget(fsys, root, fuel, target, absTarget) ==
    resolveInfo(fsys, root, fuel, target, absTarget, Lstat(fsys, absTarget))

resolveLink(fsys, root, path, fuel) ==
    resolveTarget(fsys, root, fuel, fsys[Lstat(fsys, path).real].target,
                  resolveAbs(root, path, fsys[Lstat(fsys, path).real].target))

\* what one call of the walk function does: the error it returns, the
\* header it writes and the nested walk it runs
Visited(err, headers, frames) == [err |-> err, headers |-> headers, frames |-> frames]

\* the symlink case of the walk function
packSymlink(deref, allow, root, f, name, node, resolved) ==
    IF resolved.err # "none" THEN Visited(resolved.err, <<>>, <<>>)
    ELSE IF checkSymlink(allow, root, f.path, resolved.target) = "none"
    THEN Visited("none",
                 <<Hdr(name, "symlink", resolved.absTarget, node.mtime,
                       node.mode, "none")>>, <<>>)
    ELSE IF ~deref
    THEN Visited(checkSymlink(allow, root, f.path, resolved.target), <<>>, <<>>)
    ELSE IF resolved.info.kind = "dir"
    THEN Visited("none", <<>>, <<Frame(resolved.absTarget, resolved.target, f.path)>>)
    ELSE Visited("none",
                 <<Hdr(name, "reg", <<>>, resolved.info.mtime,
                       resolved.info.mode, resolved.info.body)>>, <<>>)

\* the walk function from checkFileMode on, for the entry named name
packEntry(fsys, deref, allow, root, f, name, node) ==
    IF name = Dot THEN Visited("none", <<>>, <<>>)
    ELSE IF node.kind \notin {"dir", "file", "symlink"}
    THEN Visited("none", <<>>, <<>>)
    ELSE IF node.kind = "dir"
    THEN Visited("none",
                 <<Hdr(name \o <<Sep>>, "dir", <<>>, node.mtime, node.mode, "none")>>,
                 <<>>)
    ELSE IF node.kind = "file"
    THEN Visited("none",
                 <<Hdr(name, "reg", <<>>, node.mtime, node.mode, node.body)>>, <<>>)
    ELSE packSymlink(deref, allow, root, f, name, node,
                     resolveLink(fsys, root, f.path, MaxLinkDepth))

\* packWalkFn(root, src, dst, ...) called by filepath.Walk on f.path, for a
\* packer without ignore rules
packWalkFn(fsys, deref, allow, root, f) ==
    IF RelFails(f.src, f.path)
    THEN Visited("failed to get relative path for file", <<>>, <<>>)
    ELSE IF Rel(f.src, f.path) = Dot THEN Visited("none", <<>>, <<>>)
    ELSE packEntry(fsys, deref, allow, root, f,
                   Rel(root, Replace(f.path, f.src, f.dst)),
                   fsys[Names(f.path)])

\* the accounting that leaves the directory entries out of the list
AccountFiles_FilesOnly(files, headers) ==
    files \o SelectSeq([i \in DOMAIN headers |-> headers[i].Name],
                       LAMBDA n : ~HasSuffix(n, <<Sep>>))

\* meta.Files = append(meta.Files, header.Name), after each written header
AccountFiles(files, headers) ==
    files \o [i \in DOMAIN headers |-> headers[i].Name]

\* the frames filepath.Walk visits after a directory: its names in order
ChildFrames(fsys, f) ==
    IF Names(f.path) \in DOMAIN fsys /\ fsys[Names(f.path)].kind = "dir"
    THEN LET names == readDirNames(fsys, Names(f.path))
         IN [i \in DOMAIN names |-> Frame(Join(f.path, names[i]), f.src, f.dst)]
    ELSE <<>>

\* what is kept about a visited symlink: its path, its own target, what the
\* walk function returned and what it wrote
LinkVisit(f, node, r) ==
    [path |-> f.path, target |-> node.target, err |-> r.err,
     wrote |-> IF Len(r.headers) > 0 THEN r.headers[1].Typeflag
               ELSE IF Len(r.frames) > 0 THEN "walk" ELSE "nothing"]

\* filepath.Walk calls the walk function on the next path; an error ends
\* Pack, a directory is descended into, a nested walk runs to its end first
PackVisit ==
    /\ packer.pc = "walk"
    /\ Len(packer.walk) > 0
    /\ \E f \in {Head(packer.walk)} :
       \E node \in {fs[Names(f.path)]} :
       \E r \in {packWalkFn(fs, packer.dereference, allowSymlinkTargets, SrcDir, f)} :
          /\ packer' =
                [packer EXCEPT
                   !.pc = IF r.err = "none" THEN "walk" ELSE "returned",
                   !.err = r.err,
                   !.walk = IF r.err = "none"
                            THEN r.frames \o ChildFrames(fs, f) \o Tail(packer.walk)
                            ELSE <<>>,
                   !.Files = AccountFiles(packer.Files, r.headers),
                   !.links = IF node.kind = "symlink"
                             THEN Append(packer.links, LinkVisit(f, node, r))
                             ELSE packer.links]
          /\ archive' = archive \o r.headers
    /\ UNCHANGED <<fs, pos, unpackErr, allowSymlinkTargets, entryLog>>
    /\ UNCHANGED <<builderVars, matcher, escaping, copier, lookup,
                   tracing, resolver, shared, sink, reader>>

\* the walk is over: Pack returns meta, and the caller unpacks the slug
\* into the destination directory
PackReturn ==
    /\ packer.pc = "walk"
    /\ Len(packer.walk) = 0
    /\ packer' = [packer EXCEPT !.pc = "returned"]
    /\ pos' = 1
    /\ unpackErr' = "running"
    /\ UNCHANGED <<fs, archive, allowSymlinkTargets, entryLog>>
    /\ UNCHANGED <<builderVars, matcher, escaping, copier, lookup,
                   tracing, resolver, shared, sink, reader>>

PackNext == PackVisit \/ PackReturn \/ UnpackNext \/ UnpackEOF

SpecPack == PackInit /\ [][PackNext]_vars

-----------------------------------------------------------------------------
(* Claims about Packer.Pack *)

\* the paths below the source directory, and the same path below the
\* destination directory
SourcePaths ==
    { q \in DOMAIN fs : Len(q) > 2 /\ SubSeq(q, 1, 2) = Names(SrcDir) }
UnpackedPaths ==
    { q \in DOMAIN fs : Len(q) > 2 /\ SubSeq(q, 1, 2) = Names(DstDir) }
Mirror(q) == Names(DstDir) \o SubSeq(q, 3, Len(q))

\* a source entry the round trip is about: a directory, a regular file, or
\* a symlink with a relative target that exists inside the source directory
RoundTripEntry(q) ==
    \/ fs[q].kind \in {"dir", "file"}
    \/ /\ fs[q].kind = "symlink"
       /\ ~IsAbs(fs[q].target)
       /\ TargetWithinRoot(SrcDir, AbsTargetOf(SrcDir, PathOf(q), fs[q].target))
       /\ Stat(fs, AbsTargetOf(SrcDir, PathOf(q), fs[q].target)).st = "ok"

\* the destination holds what the source holds
SameTree ==
    /\ \A q \in SourcePaths :
          /\ Mirror(q) \in DOMAIN fs
          /\ fs[Mirror(q)].kind = fs[q].kind
          /\ fs[q].kind = "file" =>
                /\ fs[Mirror(q)].body = fs[q].body
                /\ fs[Mirror(q)].mode = fs[q].mode
          /\ fs[q].kind = "symlink" => fs[Mirror(q)].target = fs[q].target
    /\ \A d \in UnpackedPaths : \E q \in SourcePaths : Mirror(q) = d

\* C11: for a source directory of directories, regular files and symlinks
\* with targets inside it, Pack succeeds, Unpack of the slug into the empty
\* destination succeeds, and the destination then has the same paths with
\* the same contents, permission bits and symlink targets.
C11_UnpackOfPackIsTheSource ==
    (/\ \A q \in SourcePaths : RoundTripEntry(q)
     /\ packer.pc = "returned"
     /\ unpackErr # "running")
        => /\ packer.err = "none"
           /\ unpackErr = "ok"
           /\ SameTree

\* every directory of the source holds something
NoEmptyDirectory ==
    \A q \in SourcePaths :
        fs[q].kind = "dir" =>
            \E k \in SourcePaths : Len(k) = Len(q) + 1 /\ Front(k) = q

\* The round trip of C11 for the sources without an empty directory: it
\* fails on them as well, at the relative link a/m -> ../b.
C11_WithoutEmptyDirectories ==
    NoEmptyDirectory => C11_UnpackOfPackIsTheSource

\* the target of a visited link, as the absolute path it names
LinkAbsTarget(l) == AbsTargetOf(SrcDir, l.path, l.target)

\* C14: a visited symlink whose target is neither inside the source
\* directory nor under an allowed target makes Pack fail with the
\* IllegalSlugError "has external target" when dereferencing is off; when it
\* is on and the target exists, the link is written as a regular file or its
\* directory is walked, and that walk does not fail on the directory.
C14_ExternalLinkRejectedOrDereferenced ==
    /\ \A i \in DOMAIN packer.links :
          ~AcceptableTarget(allowSymlinkTargets, SrcDir, LinkAbsTarget(packer.links[i])) =>
             IF packer.dereference
             THEN Stat(fs, LinkAbsTarget(packer.links[i])).st = "ok" =>
                     /\ packer.links[i].err = "none"
                     /\ packer.links[i].wrote \in {"reg", "walk"}
             ELSE packer.links[i].err = "IllegalSlugError: has external target"
    /\ packer.dereference => packer.err # "failed to get relative path for file"

\* C15: after a successful Pack, meta.Files is the sequence of the names of
\* the headers written to the archive, one per header, in the order written.
C15_FilesAreTheHeaderNames ==
    (packer.pc = "returned" /\ packer.err = "none") =>
        packer.Files = [i \in DOMAIN archive |-> archive[i].Name]

\* Pack returned meta for a slug with a directory header and an entry that
\* a nested walk of a dereferenced directory wrote.
C15_Witness ==
    /\ packer.pc = "returned" /\ packer.err = "none"
    /\ Len(packer.Files) >= 3
    /\ \E i \in DOMAIN archive : archive[i].Typeflag = "dir"
    /\ \E i \in DOMAIN archive : archive[i].Name = <<"r", "/", "y">>


\* C38: a walked entry that is neither a directory, a regular file nor a
\* symlink makes Pack return an error.
C38_UnsupportedModeRejected ==
    [][(/\ packer.pc = "walk"
        /\ Len(packer.walk) > 0
        /\ Rel(Head(packer.walk).src, Head(packer.walk).path) # Dot
        /\ fs[Names(Head(packer.walk).path)].kind
              \notin {"dir", "file", "symlink"})
         => /\ packer'.pc = "returned"
            /\ packer'.err # "none"]_vars

-----------------------------------------------------------------------------
(* Packer.Pack with ignore rules *)

\* matchIgnoreRule(path, rules): the loop over the rules from rule i on,
\* "panic" when a rule's checks index an empty value
RECURSIVE matchIgnoreRuleFrom(_, _, _, _)
matchIgnoreRuleFrom(path, rules, i, matched) ==
    IF i > Len(rules) THEN IF matched THEN "matched" ELSE "kept"
    ELSE LET cut == LastSep(path, Len(path))
             match == ruleMatch(rules[i].val, path, SubSeq(path, 1, cut),
                                SubSeq(path, cut + 1, Len(path)))
         IN IF match = "panic" THEN "panic"
            ELSE matchIgnoreRuleFrom(path, rules, i + 1,
                                     Matched(matched, rules[i], match = "match"))

matchIgnoreRule(path, rules) == matchIgnoreRuleFrom(path, rules, 1, FALSE)

\* One entry of the source directory: its path relative to the source
\* directory, and whether it is a directory
WalkEntry(subpath, isDir) == [subpath |-> subpath, isDir |-> isDir]

\* The source directory, in the order filepath.Walk visits it
IgnoreWalk ==
    << WalkEntry(<<"a">>, TRUE),
       WalkEntry(<<"a", "/", "f", ".", "x">>, FALSE),
       WalkEntry(<<"b">>, FALSE),
       WalkEntry(<<"t">>, TRUE),
       WalkEntry(<<"t", "/", "f", "y">>, FALSE),
       WalkEntry(<<"t", "/", "m">>, TRUE),
       WalkEntry(<<"t", "/", "m", "/", "f", ".", "x">>, FALSE) >>

\* Pack of that directory by a packer with ignore rules, about to walk
PackIgnoreInit ==
    /\ packer \in { [pc |-> "walk", rules |-> rs, walk |-> IgnoreWalk,
                     Files |-> <<>>, ignoredDirs |-> {}]
                    : rs \in SeqsUpTo(IgnoreRules, MaxRules) }
    /\ matcher = Unused /\ escaping = Unused /\ copier = Unused
    /\ lookup = Unused /\ tracing = Unused /\ resolver = Unused
    /\ shared = Unused /\ sink = Unused /\ reader = Unused
    /\ NoUnpack
    /\ NoBuilder

\* The walk function's two tests of an entry against the ignore rules: the
\* relative path, and for a directory the path with a separator after it
IgnoreVerdict(e, rules) ==
    LET asPath == matchIgnoreRule(e.subpath, rules)
    IN IF asPath # "kept" THEN asPath
       ELSE IF e.isDir THEN matchIgnoreRule(e.subpath \o <<Sep>>, rules)
       ELSE "kept"

\* filepath.Walk calls the walk function on the next entry: an ignored
\* entry makes it return nil, and the walk goes on with what follows, the
\* content of an ignored directory included; any other entry is written
PackIgnoreVisit ==
    /\ packer.pc = "walk"
    /\ Len(packer.walk) > 0
    /\ \E e \in {Head(packer.walk)} :
       \E verdict \in {IgnoreVerdict(e, packer.rules)} :
          packer' =
            IF verdict = "panic" THEN [packer EXCEPT !.pc = "panicked"]
            ELSE IF verdict = "matched"
            THEN [packer EXCEPT
                    !.walk = Tail(@),
                    !.ignoredDirs = IF e.isDir THEN @ \cup {e.subpath} ELSE @]
            ELSE [packer EXCEPT
                    !.walk = Tail(@),
                    !.Files = Append(@, IF e.isDir THEN e.subpath \o <<Sep>>
                                        ELSE e.subpath)]
    /\ UNCHANGED <<unpackVars, builderVars, matcher, escaping, copier, lookup,
                   tracing, resolver, shared, sink, reader>>

\* The walk is over: Pack returns meta
PackIgnoreReturn ==
    /\ packer.pc = "walk"
    /\ Len(packer.walk) = 0
    /\ packer' = [packer EXCEPT !.pc = "returned"]
    /\ UNCHANGED <<unpackVars, builderVars, matcher, escaping, copier, lookup,
                   tracing, resolver, shared, sink, reader>>

PackIgnoreNext == PackIgnoreVisit \/ PackIgnoreReturn

SpecPackIgnore == PackIgnoreInit /\ [][PackIgnoreNext]_vars

\* C37: a directory that matches the ignore rules is not in the archive,
\* and neither is any path beneath it.
C37_IgnoredDirSkipsSubtree ==
    \A d \in packer.ignoredDirs :
        \A i \in DOMAIN packer.Files :
            /\ packer.Files[i] # d \o <<Sep>>
            /\ ~HasPrefix(packer.Files[i], d \o <<Sep>>)

-----------------------------------------------------------------------------
(* readRules: the rules of a .terraformignore file *)

MaxLines == 2

\* defaultExclusions
DefaultExclusions ==
    << Rule(<<".git", "/">>, FALSE),
       Rule(<<"*", "*", "/", ".terraform", "/">>, FALSE),
       Rule(<<"*", "*", "/", ".terraform", "/", "modules", "/">>, TRUE) >>

WhiteSpace == {" ", "\t"}

\* strings.TrimSpace
RECURSIVE TrimLeft(_)
TrimLeft(str) ==
    IF Len(str) > 0 /\ Head(str) \in WhiteSpace THEN TrimLeft(Tail(str))
    ELSE str

RECURSIVE TrimRight(_)
TrimRight(str) ==
    IF Len(str) > 0 /\ str[Len(str)] \in WhiteSpace THEN TrimRight(Front(str))
    ELSE str

TrimSpace(str) == TrimRight(TrimLeft(str))

\* The body of readRules' loop for one line: "skip" for a line that adds
\* nothing, "panic" for an index out of range, or the rule appended
ReadLine(pattern) ==
    IF Len(pattern) = 0 THEN [do |-> "skip", rule |-> Rule(<<>>, FALSE)]
    ELSE LET trimmed == TrimSpace(pattern)
         IN IF Len(trimmed) = 0
            THEN [do |-> "panic", rule |-> Rule(<<>>, FALSE)]
            ELSE IF trimmed[1] = "#"
            THEN [do |-> "skip", rule |-> Rule(<<>>, FALSE)]
            ELSE IF trimmed[1] = "!"
            THEN [do |-> "append", rule |-> Rule(Tail(trimmed), TRUE)]
            ELSE [do |-> "append", rule |-> Rule(trimmed, FALSE)]

\* The lines of the files
IgnoreLines ==
    { <<>>, <<" ">>, <<"\t", " ">>, <<"#", "a">>, <<" ", "#", "a">>,
      <<"a", "/">>, <<"!", "f", ".", "x">>, <<" ", "b", " ">> }

\* readRules(input) about to scan the first line
ReadInit ==
    /\ reader \in { [pc |-> "scan", lines |-> ls, i |-> 1,
                     rules |-> DefaultExclusions, path |-> <<>>,
                     matched |-> "none"]
                    : ls \in SeqsUpTo(IgnoreLines, MaxLines) }
    /\ packer = Unused /\ matcher = Unused /\ escaping = Unused
    /\ copier = Unused /\ lookup = Unused /\ tracing = Unused
    /\ resolver = Unused /\ shared = Unused /\ sink = Unused
    /\ NoUnpack
    /\ NoBuilder

ReadUnchanged ==
    UNCHANGED <<unpackVars, builderVars, packer, matcher, escaping, copier,
                lookup, tracing, resolver, shared, sink>>

\* One iteration of "for scanner.Scan()"
ReadScan ==
    /\ reader.pc = "scan"
    /\ reader.i <= Len(reader.lines)
    /\ \E r \in {ReadLine(reader.lines[reader.i])} :
         reader' =
           IF r.do = "panic" THEN [reader EXCEPT !.pc = "panicked"]
           ELSE IF r.do = "skip" THEN [reader EXCEPT !.i = @ + 1]
           ELSE [reader EXCEPT !.i = @ + 1, !.rules = Append(@, r.rule)]
    /\ ReadUnchanged

\* The scanner is at the end of the input: return rules
ReadReturn ==
    /\ reader.pc = "scan"
    /\ reader.i > Len(reader.lines)
    /\ reader' = [reader EXCEPT !.pc = "returned"]
    /\ ReadUnchanged

\* A path of the walk is matched against the rules readRules returned
ReadMatch ==
    /\ reader.pc = "returned"
    /\ \E path \in IgnorePaths :
         reader' = [reader EXCEPT
                      !.pc = "matched",
                      !.path = path,
                      !.matched = matchIgnoreRule(path, reader.rules)]
    /\ ReadUnchanged

ReadNext == ReadScan \/ ReadReturn \/ ReadMatch

SpecRead == ReadInit /\ [][ReadNext]_vars

\* A line that is empty or all white space, or that begins with "#"
BlankOrComment(line) ==
    \/ \A k \in DOMAIN line : line[k] \in WhiteSpace
    \/ line[1] = "#"

\* C40: a blank line (empty or only white space) and a line beginning with
\* "#" add no rule and do not make readRules fail; and a file of such lines
\* only gives the default rules, against which matching does not fail.
C40_BlankAndCommentLinesIgnored ==
    /\ [][(reader.pc = "scan" /\ reader.i <= Len(reader.lines)
            /\ BlankOrComment(reader.lines[reader.i]))
             => /\ reader'.pc = "scan"
                /\ reader'.rules = reader.rules]_vars
    /\ []((reader.pc = "matched"
             /\ \A k \in DOMAIN reader.lines : BlankOrComment(reader.lines[k]))
            => reader.matched # "panic")

====
